---------------------------- MODULE Spec2Model ----------------------------
(***************************************************************************)
(* A model of the repro skeleton (src/inspiration/repro_skeleton/repro):   *)
(* the content-addressed store (store.py), the hasher (hashing.py), the    *)
(* run engine (runner.py) and the command line operations that write the   *)
(* store (cli.py).  Spec runs the commands one after the other, each      *)
(* store call to completion.  SpecFiles and SpecRace step through the     *)
(* store calls file operation by file operation: SpecFiles with one       *)
(* process that may crash, SpecRace with two processes on one store.      *)
(*                                                                         *)
(* Strings that the code splits on ":" are sequences of their fields:      *)
(* "blob:sha256:ab12" is <<"blob", "sha256", "ab12">>.  File contents are  *)
(* sequences of chunks.  A SHA-256 digest is a collision-free name of the  *)
(* data it was computed from.                                              *)
(***************************************************************************)
EXTENDS Integers, Sequences, FiniteSets, TLC

VARIABLES
    store,      \* the files under the store root: path -> content
    work,       \* the user's files and directories outside the store
    rundirs,    \* store/tmp/run-<hex>: hex -> [in, out]
    clock,      \* the wall clock
    run,        \* the registers of the run_step_file call in progress
    ops,        \* number of command line operations started
    procs,      \* the processes that step through store.py file by file
    crashed,    \* history: the temporaries that were open when a process crashed
    partial,    \* history: the files whose writer has not written all its bytes
    call        \* the last call of a function of the library, with what it returned

vars == <<store, work, rundirs, clock, run, ops, procs, crashed, partial, call>>

-----------------------------------------------------------------------------
(* Bounds of the model. *)

MaxOps == 2         \* command line operations in one behaviour
MaxClock == 1       \* clock readings 0..MaxClock

-----------------------------------------------------------------------------
(* Strings *)

\* s.startswith(p + ":") (or p = "@"): the fields of p, then at least one more
StartsWith(s, p) == Len(s) > Len(p) /\ SubSeq(s, 1, Len(p)) = p

\* s.split(":", 1)[1]
split1(s) == Tail(s)

\* s.split(":", 2)[2]
split2(s) == SubSeq(s, 3, Len(s))

\* Path.resolve() of a path without symlinks, component by component: ".."
\* takes the component before it away
RECURSIVE resolve(_, _)
resolve(path, acc) ==
    IF path = <<>> THEN acc
    ELSE IF Head(path) = ".."
    THEN resolve(Tail(path), IF acc = <<>> THEN <<>> ELSE SubSeq(acc, 1, Len(acc) - 1))
    ELSE resolve(Tail(path), Append(acc, Head(path)))

\* bytes.strip() of an alias file: the trailing newline goes
strip(s) == IF s # <<>> /\ s[Len(s)] = "\n" THEN SubSeq(s, 1, Len(s) - 1) ELSE s

\* ":".join(fields): the string that the fields are the parts of
RECURSIVE join(_)
join(fields) ==
    IF fields = <<>> THEN ""
    ELSE IF Len(fields) = 1 THEN fields[1]
    ELSE fields[1] \o ":" \o join(Tail(fields))

\* hex[:2] and hex[2:] of a digest that the model does not spell out: the
\* slice is named after the string it is cut from
first2(hex) == hex \o "[:2]"

from2(hex) == hex \o "[2:]"

\* no call of the library made yet
NoApiCall ==
    [op |-> "", args |-> <<>>, result |-> <<>>, before |-> <<>>,
     targets |-> <<>>,      \* history: alias name -> the target of the last alias_set
     digests |-> <<>>]      \* history: bytes -> the digest their first commit returned

\* The order of str comparison on the names the model uses.
NameOrder ==
    <<"a.txt", "a_dir", "aux", "b.txt", "my_input", "out.txt", "part.tmp", "result_dir", "sub/b.txt",
      "sub/y.txt", "x.txt", "z.txt">>

Rank(n) == CHOOSE i \in 1..Len(NameOrder) : NameOrder[i] = n

\* sorted(d.items()) of a dict d kept as the sequence of its (key, value) pairs
\* in insertion order
sorted(d) ==
    LET n == Len(d)
        perm == CHOOSE f \in [1..n -> 1..n] :
                    /\ \A i, j \in 1..n : i # j => f[i] # f[j]
                    /\ \A i, j \in 1..n : i < j => Rank(d[f[i]][1]) < Rank(d[f[j]][1])
    IN  [i \in 1..n |-> d[perm[i]]]

\* sorted(files) of a set of relative paths
sorted_paths(S) ==
    LET n == Cardinality(S)
    IN  CHOOSE q \in [1..n -> S] :
            \A i, j \in 1..n : i < j => Rank(q[i]) < Rank(q[j])

DictKeys(d) == {d[i][1] : i \in 1..Len(d)}

DictGet(d, k) == d[CHOOSE i \in 1..Len(d) : d[i][1] = k][2]

-----------------------------------------------------------------------------
(* hashing.py *)

sha256_bytes(data) == <<"sha256", ToString(data)>>

sha256_file(bytes) == sha256_bytes(bytes)

canonical_json(obj) == <<"json", obj>>

combine_hashes(ids) == sha256_bytes(<<"|", ids>>)

\* a faulty snapshot: the digest is taken over the paths alone
tree_snapshot_paths_only(files) ==
    LET rels == sorted_paths(DOMAIN files)
    IN  [tree_id |-> sha256_bytes(canonical_json(IF rels = <<>> THEN <<>> ELSE rels)),
         entries |-> [i \in 1..Len(rels) |->
                         [path |-> rels[i], blob |-> sha256_file(files[rels[i]]),
                          size |-> Len(files[rels[i]])]]]

\* iter_files + tree_snapshot of a directory given as relative path -> bytes
tree_snapshot(files) ==
    LET rels == sorted_paths(DOMAIN files)
        entries == [i \in 1..Len(rels) |->
                       [path |-> rels[i], blob |-> sha256_file(files[rels[i]]),
                        size |-> Len(files[rels[i]])]]
        pairs == IF rels = <<>> THEN <<>>
                 ELSE [i \in 1..Len(rels) |-> <<rels[i], sha256_file(files[rels[i]])>>]
    IN  [tree_id |-> sha256_bytes(canonical_json(pairs)), entries |-> entries]

-----------------------------------------------------------------------------
(* store.py, each call run to completion *)

\* store / kind/sha256 / hex[:2] / hex[2:]
_fanout_dir(kind, digest_hex) ==
    <<kind, "sha256", first2(join(digest_hex)), from2(join(digest_hex))>>

\* Path.with_suffix
with_suffix(path, suffix) ==
    IF path[Len(path)] = ".json"
    THEN SubSeq(path, 1, Len(path) - 1) \o <<suffix>>
    ELSE path \o <<suffix>>

blob_path(blob_id) == _fanout_dir("blobs", split1(blob_id))

manifest_path(run_id) == with_suffix(_fanout_dir("manifests", split1(run_id)), ".json")

\* (store / "aliases" / name).resolve(), relative to the store
alias_path(name) == resolve(<<"aliases">> \o name, <<>>)

\* a faulty commit: the name is salted with the number of files in the store
commit_blob_salted(st, bytes) ==
    LET blob_id == sha256_bytes(<<bytes, Cardinality(DOMAIN st)>>)
        dst == _fanout_dir("blobs", split1(blob_id))
    IN  [store |-> IF dst \in DOMAIN st THEN st ELSE st @@ (dst :> bytes),
         blob_id |-> blob_id]

commit_blob(st, bytes) ==
    LET blob_id == sha256_file(bytes)
        dst == _fanout_dir("blobs", split1(blob_id))
    IN  [store |-> IF dst \in DOMAIN st THEN st ELSE st @@ (dst :> bytes),
         blob_id |-> blob_id]

RECURSIVE commit_blobs(_, _, _, _)
commit_blobs(st, files, entries, i) ==
    IF i > Len(entries) THEN st
    ELSE commit_blobs(commit_blob(st, files[entries[i].path]).store, files, entries, i + 1)

commit_tree(st, files) ==
    LET snap == tree_snapshot(files)
        tree_file == _fanout_dir("trees", split1(snap.tree_id))
        data == [version |-> 1, entries |-> snap.entries]
    IN  [store |-> IF tree_file \in DOMAIN st THEN st
                   ELSE commit_blobs(st, files, snap.entries, 1) @@ (tree_file :> <<data>>),
         typed_id |-> <<"tree">> \o snap.tree_id,
         entries |-> snap.entries]

read_tree(st, tree_typed_id) ==
    LET p == _fanout_dir("trees", split2(tree_typed_id))
    IN  IF p \in DOMAIN st /\ st[p] # <<>>
        THEN [ok |-> TRUE, data |-> st[p][1]]
        ELSE [ok |-> FALSE, data |-> [version |-> 1, entries |-> <<>>]]

write_manifest(st, run_id, manifest) ==
    [p \in DOMAIN st \cup {manifest_path(run_id)} |->
        IF p = manifest_path(run_id) THEN <<manifest>> ELSE st[p]]

\* a faulty alias_set: the file is opened for appending
alias_set_append(st, name, target) ==
    [p \in DOMAIN st \cup {alias_path(name)} |->
        IF p = alias_path(name)
        THEN (IF p \in DOMAIN st THEN st[p] ELSE <<>>) \o target \o <<"\n">>
        ELSE st[p]]

alias_set(st, name, target) ==
    [p \in DOMAIN st \cup {alias_path(name)} |->
        IF p = alias_path(name) THEN target \o <<"\n">> ELSE st[p]]

\* None is <<>>
alias_get(st, name) ==
    IF alias_path(name) \notin DOMAIN st THEN <<>> ELSE strip(st[alias_path(name)])

-----------------------------------------------------------------------------
(* The user's side: files, step modules, arguments *)

F1 == <<"h", "i">>

WorkInit ==
    ("f1" :> [kind |-> "file", bytes |-> F1, files |-> <<>>]) @@
    ("d1" :> [kind |-> "dir", bytes |-> <<>>,
              files |-> ("a.txt" :> <<"A">>) @@ ("sub/b.txt" :> <<"B">>)])

\* Step files: the AST that code_hash_ast dumps, and the decorated roles.
\* test.py is examples/test.py, test_fmt.py the same code formatted differently,
\* append.py the step of scenario S1, broken.py a module without @save, multi.py
\* a step whose save writes two files and a directory with a subdirectory,
\* scratch.py a step whose save writes part.tmp first and renames it to out.txt.
StepModules ==
    ("multi.py"    :> [ast |-> "multi",  roles |-> {"load", "core", "save"}]) @@
    ("scratch.py"  :> [ast |-> "scratch", roles |-> {"load", "core", "save"}]) @@
    ("test.py"     :> [ast |-> "upper",  roles |-> {"load", "core", "save"}]) @@
    ("test_fmt.py" :> [ast |-> "upper",  roles |-> {"load", "core", "save"}]) @@
    ("append.py"   :> [ast |-> "append", roles |-> {"load", "core", "save"}]) @@
    ("broken.py"   :> [ast |-> "broken", roles |-> {"load", "core"}])

\* The arguments of run_step_file other than input_specs.  The first is the
\* base call; each of the others changes one argument of it.
Base ==
    [step_path |-> "test.py", params_eff |-> ("suffix" :> "!"),
     params_prov |-> ("suffix" :> "CLI"), capture_packages |-> FALSE, alias |-> <<>>]

Invocations ==
    { Base,
      [Base EXCEPT !.step_path = "test_fmt.py"],
      [Base EXCEPT !.step_path = "append.py"],
      [Base EXCEPT !.step_path = "broken.py"],
      [Base EXCEPT !.params_eff = ("suffix" :> "?")],
      [Base EXCEPT !.params_prov = ("suffix" :> "DEFAULT")],
      [Base EXCEPT !.capture_packages = TRUE],
      [Base EXCEPT !.alias = <<"latest">>] }

\* input_specs: dicts, as the sequence of their items
InputMaps ==
    { <<>>,
      << <<"my_input", <<"@", "f1">> >> >>,
      << <<"my_input", <<"@", "d1">> >> >>,
      << <<"my_input", <<"@", "f1">> >>, <<"aux", <<"@", "d1">> >> >>,
      << <<"aux", <<"@", "d1">> >>, <<"my_input", <<"@", "f1">> >> >>,
      << <<"my_input", <<"blob">> \o sha256_file(F1)>> >>,
      << <<"my_input", <<"alias", "latest">> >> >>,
      << <<"my_input", <<"@", "f1">> >>, <<"aux", <<"nonsense">> >> >>,
      << <<"aux", <<"nonsense">> >>, <<"my_input", <<"@", "f1">> >> >> }

AliasNames == {<<"latest">>}

\* what `repro alias set NAME TARGET` may be given
CliTargets ==
    { <<"run", "sha256", "dead">>, <<"blob">> \o sha256_file(F1), <<"alias", "latest">> }

code_hash_ast(path) == sha256_bytes(<<"ast", StepModules[path].ast>>)

minimal_env_summary(capture_packages) ==
    IF capture_packages
    THEN [python |-> "3.11", platform |-> "linux", packages |-> <<"pkgs">>]
    ELSE [python |-> "3.11", platform |-> "linux", packages |-> <<>>]

\* utc_now_iso() when the clock reads now
utc_now_iso(now) == now

-----------------------------------------------------------------------------
(* util.py *)

\* a faulty prefer_link: the hard link is tried first
prefer_link_hardlink_first(src_kind, symlink_ok, hardlink_ok) ==
    IF hardlink_ok /\ src_kind = "file"
    THEN [ok |-> TRUE, method |-> "hardlink", calls |-> <<"link">>]
    ELSE IF symlink_ok
    THEN [ok |-> TRUE, method |-> "symlink",
          calls |-> (IF src_kind = "dir" THEN <<>> ELSE <<"link">>) \o <<"symlink">>]
    ELSE [ok |-> src_kind # "missing",
          method |-> IF src_kind # "missing" THEN "copy" ELSE "FileNotFoundError",
          calls |-> (IF src_kind = "dir" THEN <<>> ELSE <<"link">>) \o
                    <<"symlink", IF src_kind = "dir" THEN "copytree" ELSE "copy2">>]

\* prefer_link(src, dst) with src a file, a directory or missing: the calls to
\* the operating system in their order, and the method returned or the error
\* that leaves the function.  os.symlink does not look at src; os.link needs
\* an existing file and is not called for a directory (line 24-25).
prefer_link_at(src_kind, symlink_ok, hardlink_ok) ==
    IF symlink_ok
    THEN [ok |-> TRUE, method |-> "symlink", calls |-> <<"symlink">>]
    ELSE IF src_kind = "dir"
    THEN [ok |-> TRUE, method |-> "copy", calls |-> <<"symlink", "copytree">>]
    ELSE IF hardlink_ok /\ src_kind = "file"
    THEN [ok |-> TRUE, method |-> "hardlink", calls |-> <<"symlink", "link">>]
    ELSE IF src_kind = "file"
    THEN [ok |-> TRUE, method |-> "copy", calls |-> <<"symlink", "link", "copy2">>]
    ELSE [ok |-> FALSE, method |-> "FileNotFoundError", calls |-> <<"symlink", "link", "copy2">>]

\* prefer_link(src, dst) on a fresh dst: the method used, or the error of the
\* final copy.  symlink_ok / hardlink_ok: whether the platform lets the call succeed.
prefer_link(src_exists, symlink_ok, hardlink_ok) ==
    LET r == prefer_link_at(IF src_exists THEN "file" ELSE "missing", symlink_ok, hardlink_ok)
    IN  [ok |-> r.ok, method |-> r.method]

-----------------------------------------------------------------------------
(* runner.py *)

NoEntry == [type |-> "", id |-> <<>>, origin |-> ""]

Resolved(st, typed_id, entry) ==
    [ok |-> TRUE, err |-> "", store |-> st, typed_id |-> typed_id, entry |-> entry]

Raised(st, err) ==
    [ok |-> FALSE, err |-> err, store |-> st, typed_id |-> <<>>, entry |-> NoEntry]

\* a faulty message: the alias is not named
alias_not_found_unnamed(spec) == "Alias not found"

\* line 52: f"Alias not found: {spec}"
alias_not_found(spec) == "Alias not found: " \o join(spec)

\* The call as one step.  depth: the alias steps left before RecursionError.
\* The code has no limit of its own (line 53 recurses); a chain of more steps
\* than there are alias names has come back to a name, so it never ends and
\* the interpreter raises RecursionError.  ResolveFrame below takes the call
\* frame by frame.
RECURSIVE resolve_input_spec(_, _, _, _)
resolve_input_spec(st, wk, spec, depth) ==
    IF StartsWith(spec, <<"@">>) THEN
        IF spec[2] \notin DOMAIN wk THEN Raised(st, "FileNotFoundError")
        ELSE IF wk[spec[2]].kind = "dir" THEN
            LET r == commit_tree(st, wk[spec[2]].files)
            IN  Resolved(r.store, r.typed_id,
                         [type |-> "dir", id |-> split1(r.typed_id), origin |-> "adopted"])
        ELSE
            LET r == commit_blob(st, wk[spec[2]].bytes)
            IN  Resolved(r.store, <<"blob">> \o r.blob_id,
                         [type |-> "file", id |-> split1(r.blob_id), origin |-> "adopted"])
    ELSE IF StartsWith(spec, <<"alias">>) THEN
        LET target == alias_get(st, split1(spec))
        IN  IF target = <<>> THEN Raised(st, alias_not_found(spec))
            ELSE IF depth = 0 THEN Raised(st, "RecursionError")
            ELSE resolve_input_spec(st, wk, target, depth - 1)
    ELSE IF StartsWith(spec, <<"blob", "sha256">>) THEN
        Resolved(st, spec, [type |-> "file", id |-> split2(spec), origin |-> "derived"])
    ELSE IF StartsWith(spec, <<"tree", "sha256">>) THEN
        Resolved(st, spec, [type |-> "dir", id |-> split2(spec), origin |-> "derived"])
    ELSE Raised(st, "Unsupported input spec")

\* materialize_input(store, typed_id, dst) into a fresh dst: what dst holds
\* afterwards and the method returned.  A file: one link to the blob path.  A
\* directory: the links made for its entries; line 80 calls prefer_link while
\* `used` is None, and `used or prefer_link(...)` afterwards, which does not
\* call it since `used` is a non-empty string.
materialize_input(st, typed_id, symlink_ok, hardlink_ok) ==
    IF StartsWith(typed_id, <<"blob", "sha256">>) THEN
        LET src == blob_path(<<"sha256">> \o split2(typed_id))
            r == prefer_link(src \in DOMAIN st, symlink_ok, hardlink_ok)
        IN  [ok |-> r.ok, err |-> IF r.ok THEN "" ELSE r.method, is_dir |-> FALSE,
             links |-> IF r.ok THEN ("" :> src) ELSE <<>>,
             method |-> IF r.ok THEN r.method ELSE ""]
    ELSE IF StartsWith(typed_id, <<"tree", "sha256">>) THEN
        LET t == read_tree(st, typed_id)
            es == t.data.entries
            first == prefer_link(blob_path(es[1].blob) \in DOMAIN st, symlink_ok, hardlink_ok)
        IN  IF ~t.ok THEN [ok |-> FALSE, err |-> "FileNotFoundError", is_dir |-> TRUE,
                           links |-> <<>>, method |-> ""]
            ELSE IF es = <<>> THEN [ok |-> TRUE, err |-> "", is_dir |-> TRUE,
                                    links |-> <<>>, method |-> "copy"]
            ELSE IF ~first.ok THEN [ok |-> FALSE, err |-> first.method, is_dir |-> TRUE,
                                    links |-> <<>>, method |-> ""]
            ELSE [ok |-> TRUE, err |-> "", is_dir |-> TRUE,
                  links |-> (es[1].path :> blob_path(es[1].blob)), method |-> first.method]
    ELSE [ok |-> FALSE, err |-> "Cannot materialize id", is_dir |-> FALSE,
          links |-> <<>>, method |-> ""]

\* copy2 / copytree of one materialized input into run_dir/in: the links are
\* read through, so a link whose blob is missing raises
\* a faulty copy: a link whose blob is missing is copied as an empty file
copy_input_unchecked(st, m) ==
    IF m.is_dir
    THEN [ok |-> TRUE, is_dir |-> TRUE, bytes |-> <<>>,
          files |-> [k \in DOMAIN m.links |->
                        IF m.links[k] \in DOMAIN st THEN st[m.links[k]] ELSE <<>>]]
    ELSE [ok |-> TRUE, is_dir |-> FALSE,
          bytes |-> IF m.links[""] \in DOMAIN st THEN st[m.links[""]] ELSE <<>>,
          files |-> <<>>]

copy_input(st, m) ==
    IF \E k \in DOMAIN m.links : m.links[k] \notin DOMAIN st
    THEN [ok |-> FALSE, is_dir |-> m.is_dir, bytes |-> <<>>, files |-> <<>>]
    ELSE IF m.is_dir
    THEN [ok |-> TRUE, is_dir |-> TRUE, bytes |-> <<>>,
          files |-> [k \in DOMAIN m.links |-> st[m.links[k]]]]
    ELSE [ok |-> TRUE, is_dir |-> FALSE, bytes |-> st[m.links[""]], files |-> <<>>]

\* the loop over materialization.items(): run_dir/in as far as it got
RECURSIVE copy_inputs(_, _, _, _)
copy_inputs(st, in_temp, i, acc) ==
    IF i > Len(in_temp) THEN [ok |-> TRUE, in |-> acc]
    ELSE LET c == copy_input(st, in_temp[i][2])
         IN  IF ~c.ok THEN [ok |-> FALSE, in |-> acc]
             ELSE copy_inputs(st, in_temp, i + 1, acc @@ (in_temp[i][1] :> c))

RECURSIVE total_size(_, _)
total_size(entries, i) ==
    IF i > Len(entries) THEN 0 ELSE entries[i].size + total_size(entries, i + 1)

\* scan_outputs_and_commit over sorted(out_dir.iterdir()), from the i-th name on
\* a faulty scan: the nested files of a directory become outputs of their own
RECURSIVE scan_outputs_flat(_, _, _, _, _)
scan_outputs_flat(st, out, names, i, outputs) ==
    IF i > Len(names) THEN [store |-> st, outputs |-> outputs]
    ELSE LET e == out[names[i]]
             paths == sorted_paths(DOMAIN e.files)
         IN  IF e.is_dir
             THEN scan_outputs_flat(commit_tree(st, e.files).store, out, names, i + 1,
                      outputs \o [k \in 1..Len(paths) |->
                          <<paths[k], [type |-> "file",
                                       id |-> split1(sha256_file(e.files[paths[k]])),
                                       size |-> Len(e.files[paths[k]])]>>])
             ELSE LET r == commit_blob(st, e.bytes)
                  IN  scan_outputs_flat(r.store, out, names, i + 1,
                          Append(outputs, <<names[i], [type |-> "file", id |-> split1(r.blob_id),
                                                       size |-> Len(e.bytes)]>>))

RECURSIVE scan_outputs_and_commit(_, _, _, _, _)
scan_outputs_and_commit(st, out, names, i, outputs) ==
    IF i > Len(names) THEN [store |-> st, outputs |-> outputs]
    ELSE LET e == out[names[i]]
         IN  IF e.is_dir
             THEN LET r == commit_tree(st, e.files)
                  IN  scan_outputs_and_commit(r.store, out, names, i + 1,
                          Append(outputs, <<names[i], [type |-> "dir", id |-> split1(r.typed_id),
                                                       size |-> total_size(r.entries, 1)]>>))
             ELSE LET r == commit_blob(st, e.bytes)
                  IN  scan_outputs_and_commit(r.store, out, names, i + 1,
                          Append(outputs, <<names[i], [type |-> "file", id |-> split1(r.blob_id),
                                                       size |-> Len(e.bytes)]>>))

-----------------------------------------------------------------------------
(* The step modules' phases (examples/test.py and the step of scenario S1) *)

upper(c) == CASE c = "h" -> "H" [] c = "i" -> "I" [] OTHER -> c

\* load: ctx.open_input("my_input").read()
StepLoad(ast, indir) ==
    IF "my_input" \in DOMAIN indir /\ ~indir["my_input"].is_dir
    THEN [ok |-> TRUE, loaded |-> indir["my_input"].bytes]
    ELSE [ok |-> FALSE, loaded |-> <<>>]

StepCore(ast, loaded, params) ==
    IF ast = "upper"
    THEN [i \in 1..Len(loaded) |-> upper(loaded[i])] \o <<params["suffix"]>>
    ELSE loaded \o <<"!">>

\* save: what the phase leaves under ctx.output_dir
StepSave(ast, results) ==
    IF ast = "upper"
    THEN ("result_dir" :> [is_dir |-> TRUE, bytes |-> <<>>, files |-> ("out.txt" :> results)])
    ELSE IF ast = "multi"
    THEN ("z.txt" :> [is_dir |-> FALSE, bytes |-> results, files |-> <<>>]) @@
         ("a_dir" :> [is_dir |-> TRUE, bytes |-> <<>>,
                      files |-> ("x.txt" :> results) @@ ("sub/y.txt" :> <<>>)]) @@
         ("b.txt" :> [is_dir |-> FALSE, bytes |-> <<>>, files |-> <<>>])
    ELSE ("out.txt" :> [is_dir |-> FALSE, bytes |-> results, files |-> <<>>])

-----------------------------------------------------------------------------
(* run_step_file, one action per step of the call *)

RunIdle ==
    [pc |-> "idle", error |-> "", step_path |-> "", params_eff |-> <<>>,
     params_prov |-> <<>>, capture_packages |-> FALSE, alias |-> <<>>,
     input_specs |-> <<>>, code_h |-> <<>>,
     inputs_map |-> <<>>, in_temp |-> <<>>, input_hash |-> <<>>, env_summary |-> <<>>,
     env_hash |-> <<>>, params_hash |-> <<>>, run_id |-> <<>>, loaded |-> <<>>,
     results |-> <<>>, outputs_map |-> <<>>, events |-> <<>>, store0 |-> <<>>]

\* a faulty order: the alias is set before the manifest is written
RunOrderAliasFirst ==
    <<"resolve", "workdir", "load", "core", "save", "commit", "alias", "manifest", "cleanup">>

\* the order of the steps of run_step_file
RunOrder ==
    <<"resolve", "workdir", "load", "core", "save", "commit", "manifest", "alias", "cleanup">>

NextPc(pc) == RunOrder[(CHOOSE i \in 1..Len(RunOrder) : RunOrder[i] = pc) + 1]

\* a faulty abort: an exception of a phase is swallowed and the run goes on
AbortSwallowed(r, err) ==
    IF r.pc \in {"load", "core", "save"}
    THEN [r EXCEPT !.error = err, !.pc = NextPc(r.pc)]
    ELSE [RunIdle EXCEPT !.pc = "raised", !.error = err, !.run_id = r.run_id,
                         !.input_specs = r.input_specs, !.alias = r.alias,
                         !.events = r.events, !.store0 = r.store0]

\* an exception leaves run_step_file: nothing is caught, nothing cleaned up.
\* Of the registers the caller sees the error and knows its arguments; events
\* and store0 are history.
Abort(r, err) ==
    [RunIdle EXCEPT !.pc = "raised", !.error = err, !.run_id = r.run_id,
                    !.input_specs = r.input_specs, !.alias = r.alias,
                    !.events = r.events, !.store0 = r.store0]

Event(kind, name) == <<kind, name>>

RecursionLimit == Cardinality(AliasNames)

NoCall == run.pc \in {"idle", "returned", "raised"}

\* lines 117-123: ensure_layout, import the module, discover the phases, hash the code
RunStart(inv, input_specs) ==
    /\ NoCall
    /\ ops < MaxOps
    /\ ops' = ops + 1
    /\ run' = IF StepModules[inv.step_path].roles # {"load", "core", "save"}
              THEN Abort([RunIdle EXCEPT !.store0 = store, !.alias = inv.alias,
                                         !.input_specs = input_specs], "SystemExit")
              ELSE [RunIdle EXCEPT !.pc = "resolve", !.step_path = inv.step_path,
                                   !.params_eff = inv.params_eff,
                                   !.params_prov = inv.params_prov,
                                   !.capture_packages = inv.capture_packages,
                                   !.alias = inv.alias,
                                   !.input_specs = input_specs,
                                   !.code_h = code_hash_ast(inv.step_path),
                                   !.store0 = store]
    /\ UNCHANGED <<call, store, work, rundirs, clock, procs, crashed, partial>>

\* lines 130-139: one turn of the loop over input_specs.items()
RunResolve(symlink_ok, hardlink_ok) ==
    /\ run.pc = "resolve"
    /\ Len(run.inputs_map) < Len(run.input_specs)
    /\ LET name == run.input_specs[Len(run.inputs_map) + 1][1]
           spec == run.input_specs[Len(run.inputs_map) + 1][2]
           r == resolve_input_spec(store, work, spec, RecursionLimit)
           m == materialize_input(r.store, r.typed_id, symlink_ok, hardlink_ok)
       IN  /\ store' = r.store
           /\ run' = IF ~r.ok THEN Abort(run, r.err)
                     ELSE IF ~m.ok
                     THEN Abort([run EXCEPT !.events = Append(@, Event("resolve", name))], m.err)
                     ELSE [run EXCEPT
                             !.inputs_map = Append(@, <<name, r.entry>>),
                             !.in_temp = Append(@, <<name, [is_dir |-> m.is_dir, links |-> m.links]>>),
                             !.events = @ \o <<Event("resolve", name), Event("materialize", name)>>]
    /\ UNCHANGED <<call, work, rundirs, clock, ops, procs, crashed, partial>>

\* line 142
input_triples(inputs_map) ==
    [i \in 1..Len(inputs_map) |->
        <<sorted(inputs_map)[i][1], sorted(inputs_map)[i][2].type, sorted(inputs_map)[i][2].id>>]

\* a faulty run id: the parameters are left out of the digest
RunIdNoParams(code_h, input_hash, params_hash, env_hash) ==
    combine_hashes(<<code_h, input_hash, env_hash>>)

\* a faulty run id: the clock enters the digest
RunIdWithTime(code_h, input_hash, params_hash, env_hash) ==
    combine_hashes(<<code_h, input_hash, params_hash, env_hash, ToString(clock)>>)

\* line 154
RunId(code_h, input_hash, params_hash, env_hash) ==
    combine_hashes(<<code_h, input_hash, params_hash, env_hash>>)

\* lines 141-154: the loop is over; the four digests and the run id
RunHash ==
    /\ run.pc = "resolve"
    /\ Len(run.inputs_map) = Len(run.input_specs)
    /\ LET input_hash == sha256_bytes(canonical_json(input_triples(run.inputs_map)))
           env_summary == minimal_env_summary(run.capture_packages)
           env_hash == sha256_bytes(canonical_json(env_summary))
           params_hash == sha256_bytes(canonical_json(run.params_eff))
           run_id == RunId(run.code_h, input_hash, params_hash, env_hash)
       IN  run' = [run EXCEPT !.pc = NextPc("resolve"), !.input_hash = input_hash,
                              !.env_summary = env_summary, !.env_hash = env_hash,
                              !.params_hash = params_hash, !.run_id = run_id]
    /\ UNCHANGED <<call, store, work, rundirs, clock, ops, procs, crashed, partial>>

RunHex == run.run_id[2]

\* a faulty setup: lines 157-158 are left out, and what an earlier run left
\* under out/ stays
RunWorkdirKept ==
    /\ run.pc = "workdir"
    /\ LET c == copy_inputs(store, run.in_temp, 1, <<>>)
       IN  /\ rundirs' = [h \in DOMAIN rundirs \cup {RunHex} |->
                            IF h # RunHex THEN rundirs[h]
                            ELSE [in |-> c.in,
                                  out |-> IF h \in DOMAIN rundirs THEN rundirs[h].out ELSE <<>>]]
           /\ run' = IF c.ok THEN [run EXCEPT !.pc = NextPc("workdir")]
                     ELSE Abort(run, "FileNotFoundError")
    /\ UNCHANGED <<call, store, work, clock, ops, procs, crashed, partial>>

\* lines 156-172: a fresh working directory, the inputs copied under in/
RunWorkdir ==
    /\ run.pc = "workdir"
    /\ LET c == copy_inputs(store, run.in_temp, 1, <<>>)
       IN  /\ rundirs' = [h \in DOMAIN rundirs \cup {RunHex} |->
                            IF h = RunHex THEN [in |-> c.in, out |-> <<>>] ELSE rundirs[h]]
           /\ run' = IF c.ok THEN [run EXCEPT !.pc = NextPc("workdir")]
                     ELSE Abort(run, "FileNotFoundError")
    /\ UNCHANGED <<call, store, work, clock, ops, procs, crashed, partial>>

\* line 177; fault: the phase raises for a reason of its own
RunLoad(fault) ==
    /\ run.pc = "load"
    /\ LET l == StepLoad(StepModules[run.step_path].ast, rundirs[RunHex].in)
       IN  run' = IF fault \/ ~l.ok
                  THEN Abort([run EXCEPT !.events = Append(@, Event("load", ""))], "load raised")
                  ELSE [run EXCEPT !.pc = NextPc("load"), !.loaded = l.loaded,
                                   !.events = Append(@, Event("load", ""))]
    /\ UNCHANGED <<call, store, work, rundirs, clock, ops, procs, crashed, partial>>

\* line 178
RunCore(fault) ==
    /\ run.pc = "core"
    /\ run' = IF fault
              THEN Abort([run EXCEPT !.events = Append(@, Event("core", ""))], "core raised")
              ELSE [run EXCEPT !.pc = NextPc("core"),
                               !.results = StepCore(StepModules[run.step_path].ast,
                                                    run.loaded, run.params_eff),
                               !.events = Append(@, Event("core", ""))]
    /\ UNCHANGED <<call, store, work, rundirs, clock, ops, procs, crashed, partial>>

\* line 179; a save that raises has written its files first
RunSave(fault) ==
    /\ run.pc = "save"
    /\ rundirs' = [rundirs EXCEPT ![RunHex].out =
                      StepSave(StepModules[run.step_path].ast, run.results)]
    /\ run' = IF fault
              THEN Abort([run EXCEPT !.events = Append(@, Event("save", ""))], "save raised")
              ELSE [run EXCEPT !.pc = NextPc("save"), !.events = Append(@, Event("save", ""))]
    /\ UNCHANGED <<call, store, work, clock, ops, procs, crashed, partial>>

\* line 182
RunCommit ==
    /\ run.pc = "commit"
    /\ LET out == rundirs[RunHex].out
           names == sorted_paths(DOMAIN out)
           r == scan_outputs_and_commit(store, out, names, 1, <<>>)
       IN  /\ store' = r.store
           /\ run' = [run EXCEPT !.pc = NextPc("commit"), !.outputs_map = r.outputs,
                                 !.events = @ \o [i \in 1..Len(names) |-> Event("commit", names[i])]]
    /\ UNCHANGED <<call, work, rundirs, clock, ops, procs, crashed, partial>>

\* a faulty list: the items in the order of insertion
manifest_list_unsorted(d) == d

\* lines 192-193: {"logical_name": n, **v} for n, v in sorted(d.items())
manifest_list(d) == [i \in 1..Len(d) |-> <<sorted(d)[i][1], sorted(d)[i][2]>>]

\* lines 185-198; now: the reading of the clock, which has moved on or not
\* since it was last read
RunManifest(now) ==
    /\ run.pc = "manifest"
    /\ now >= clock
    /\ now <= clock + 1
    /\ clock' = now
    /\ LET manifest ==
               [manifest_version |-> 1,
                run_id |-> run.run_id,
                timestamp_utc |-> utc_now_iso(now),
                step |-> [name |-> run.step_path, path |-> run.step_path, code_hash |-> run.code_h],
                parameters |-> [effective |-> run.params_eff, provenance |-> run.params_prov,
                                hash |-> run.params_hash],
                environment |-> [summary |-> run.env_summary, hash |-> run.env_hash],
                inputs |-> manifest_list(run.inputs_map),
                outputs |-> manifest_list(run.outputs_map),
                tool |-> [name |-> "repro-skeleton", version |-> "0.1.0"]]
       IN  /\ store' = write_manifest(store, run.run_id, manifest)
           /\ run' = [run EXCEPT !.pc = NextPc("manifest"),
                                 !.events = Append(@, Event("manifest", ""))]
    /\ UNCHANGED <<call, work, rundirs, ops, procs, crashed, partial>>

\* lines 200-202; alias = <<>> is None
RunAlias ==
    /\ run.pc = "alias"
    /\ IF run.alias # <<>>
       THEN /\ store' = alias_set(store, run.alias, <<"run">> \o run.run_id)
            /\ run' = [run EXCEPT !.pc = NextPc("alias"),
                                  !.events = Append(@, Event("alias", run.alias[1]))]
       ELSE /\ store' = store
            /\ run' = [run EXCEPT !.pc = NextPc("alias")]
    /\ UNCHANGED <<call, work, rundirs, clock, ops, procs, crashed, partial>>

\* lines 204-211: both directories removed, the run id returned
RunCleanup ==
    /\ run.pc = "cleanup"
    /\ rundirs' = [h \in DOMAIN rundirs \ {RunHex} |-> rundirs[h]]
    /\ run' = [RunIdle EXCEPT !.pc = "returned", !.run_id = run.run_id]
    /\ UNCHANGED <<call, store, work, clock, ops, procs, crashed, partial>>

-----------------------------------------------------------------------------
(* cli.py: the other commands that write the store *)

\* `repro adopt PATH [--alias NAME]`, lines 87-99
Adopt(path, alias) ==
    /\ NoCall
    /\ ops < MaxOps
    /\ ops' = ops + 1
    /\ LET st == IF work[path].kind = "dir" THEN commit_tree(store, work[path].files).store
                 ELSE commit_blob(store, work[path].bytes).store
           tid == IF work[path].kind = "dir" THEN commit_tree(store, work[path].files).typed_id
                  ELSE <<"blob">> \o commit_blob(store, work[path].bytes).blob_id
       IN  store' = IF alias # <<>> THEN alias_set(st, alias, tid) ELSE st
    /\ run' = RunIdle
    /\ UNCHANGED <<call, work, rundirs, clock, procs, crashed, partial>>

\* `repro alias set NAME TARGET`, lines 128-132
AliasSet(name, target) ==
    /\ NoCall
    /\ ops < MaxOps
    /\ ops' = ops + 1
    /\ store' = alias_set(store, name, target)
    /\ run' = RunIdle
    /\ UNCHANGED <<call, work, rundirs, clock, procs, crashed, partial>>

-----------------------------------------------------------------------------

Init ==
    /\ store = <<>>
    /\ work = WorkInit
    /\ rundirs = <<>>
    /\ clock = 0
    /\ run = RunIdle
    /\ ops = 0
    /\ procs = <<>>
    /\ crashed = {}
    /\ partial = {}
    /\ call = NoApiCall

Next ==
    \/ \E inv \in Invocations, input_specs \in InputMaps : RunStart(inv, input_specs)
    \/ \E symlink_ok, hardlink_ok \in BOOLEAN : RunResolve(symlink_ok, hardlink_ok)
    \/ RunHash
    \/ RunWorkdir
    \/ \E fault \in BOOLEAN : RunLoad(fault)
    \/ \E fault \in BOOLEAN : RunCore(fault)
    \/ \E fault \in BOOLEAN : RunSave(fault)
    \/ RunCommit
    \/ \E now \in 0..MaxClock : RunManifest(now)
    \/ RunAlias
    \/ RunCleanup
    \/ \E path \in DOMAIN WorkInit, alias \in AliasNames \cup {<<>>} : Adopt(path, alias)
    \/ \E name \in AliasNames, target \in CliTargets : AliasSet(name, target)

Spec == Init /\ [][Next]_vars

-----------------------------------------------------------------------------
(* store.py file by file: every open, write, fsync and rename is a step of *)
(* a process, so that processes interleave and a process can crash.        *)

\* what a process holds when it is in no call
IdleProc ==
    [op |-> "", pc |-> "idle", src |-> <<>>, entries |-> <<>>, i |-> 0,
     blob_id |-> <<>>, dst |-> <<>>, path |-> <<>>, data |-> <<>>,
     tmp |-> <<>>, handle |-> <<>>, off |-> 0, result |-> <<>>, error |-> ""]

\* an open file whose name was replaced
Unlinked == <<"unlinked">>

F1Modified == <<"h", "X">>

ManifestSamples ==
    {[run_id |-> <<"sha256", "r1">>, timestamp_utc |-> t] : t \in 0..MaxClock}

\* the bytes of a source file as a reader finds them now
SrcBytes(src) ==
    IF src[2] = "" THEN work[src[1]].bytes ELSE work[src[1]].files[src[2]]

\* write(2) of data at an offset of a file; a gap reads as NUL
WriteAt(content, off, data) ==
    [k \in 1..(IF Len(content) > off + Len(data) THEN Len(content) ELSE off + Len(data)) |->
        IF k > off /\ k <= off + Len(data) THEN data[k - off]
        ELSE IF k <= Len(content) THEN content[k] ELSE "NUL"]

\* open(path, "wb"): creates the file or truncates the one that is there
OpenTrunc(fs, path) == [q \in DOMAIN fs \cup {path} |-> IF q = path THEN <<>> ELSE fs[q]]

\* a write through an open handle reaches the file wherever its name is now
WriteHandle(fs, handle, off, data) ==
    IF handle \in DOMAIN fs
    THEN [fs EXCEPT ![handle] = WriteAt(fs[handle], off, data)]
    ELSE fs

\* os.replace(a, b) on the files, on the open handles and on the history
Replace(fs, a, b) == [q \in (DOMAIN fs \ {a}) \cup {b} |-> IF q = b THEN fs[a] ELSE fs[q]]

ReplaceHandles(ps, a, b) ==
    [q \in DOMAIN ps |->
        IF ps[q].handle = a THEN [ps[q] EXCEPT !.handle = b]
        ELSE IF ps[q].handle = b THEN [ps[q] EXCEPT !.handle = Unlinked]
        ELSE ps[q]]

ReplacePartial(S, a, b) == (S \ {a, b}) \cup (IF a \in S THEN {b} ELSE {})

\* a faulty temporary: the copy is written at the final path
blob_tmp_in_place(dst) == dst

\* commit_blob line 53
blob_tmp(dst) == with_suffix(dst, ".tmp")

\* _atomic_write_bytes line 33
atomic_tmp(path, time_ns) == with_suffix(path, ".tmp-" \o ToString(time_ns))

ProcIds == {1, 2}

At(p, pc) == p \in DOMAIN procs /\ procs[p].pc = pc

Ready(p) == At(p, "idle") \/ At(p, "returned") \/ At(p, "raised")

Call(p) ==
    /\ Ready(p)
    /\ ops < MaxOps
    /\ ops' = ops + 1
    /\ UNCHANGED <<call, store, work, rundirs, clock, run, crashed, partial>>

Returned(pr, result) ==
    [IdleProc EXCEPT !.op = pr.op, !.pc = "returned", !.result = result,
                     !.src = pr.src, !.path = pr.path, !.data = pr.data]

RaisedIn(pr, err) ==
    [IdleProc EXCEPT !.op = pr.op, !.pc = "raised", !.error = err,
                     !.src = pr.src, !.path = pr.path, !.data = pr.data]

\* commit_blob(store, src)
CallCommitBlob(p, name) ==
    /\ Call(p)
    /\ work[name].kind = "file"
    /\ procs' = [procs EXCEPT ![p] = [IdleProc EXCEPT !.op = "commit_blob", !.pc = "hash",
                                                      !.src = <<name, "">>]]

\* line 46-48
BlobHash(p) ==
    /\ At(p, "hash")
    /\ LET blob_id == sha256_file(SrcBytes(procs[p].src))
       IN  procs' = [procs EXCEPT ![p].blob_id = blob_id,
                                  ![p].dst = _fanout_dir("blobs", split1(blob_id)),
                                  ![p].pc = "exists"]
    /\ UNCHANGED <<call, store, work, rundirs, clock, run, ops, crashed, partial>>

\* where a finished commit_blob goes on: back to the caller, or to the next
\* entry of commit_tree (lines 77-80)
AfterBlob(pr) ==
    IF pr.op = "commit_blob" THEN Returned(pr, pr.blob_id)
    ELSE IF pr.i < Len(pr.entries)
    THEN [pr EXCEPT !.i = pr.i + 1, !.src = <<pr.src[1], pr.entries[pr.i + 1].path>>,
                    !.pc = "hash", !.tmp = <<>>, !.off = 0]
    ELSE [pr EXCEPT !.pc = "aw_open", !.tmp = <<>>, !.off = 0]

\* line 49-53
BlobExists(p) ==
    /\ At(p, "exists")
    /\ procs' = [procs EXCEPT ![p] =
                    IF procs[p].dst \in DOMAIN store THEN AfterBlob(procs[p])
                    ELSE [procs[p] EXCEPT !.tmp = blob_tmp(procs[p].dst), !.pc = "open"]]
    /\ UNCHANGED <<call, store, work, rundirs, clock, run, ops, crashed, partial>>

\* line 54
BlobOpen(p) ==
    /\ At(p, "open")
    /\ store' = OpenTrunc(store, procs[p].tmp)
    /\ partial' = partial \cup {procs[p].tmp}
    /\ procs' = [procs EXCEPT ![p].handle = procs[p].tmp, ![p].off = 0, ![p].pc = "copy"]
    /\ UNCHANGED <<call, work, rundirs, clock, run, ops, crashed>>

\* line 55, one chunk of copyfileobj; the empty read ends the loop
BlobCopy(p) ==
    /\ At(p, "copy")
    /\ LET bytes == SrcBytes(procs[p].src)
           off == procs[p].off
       IN  IF off < Len(bytes)
           THEN /\ store' = WriteHandle(store, procs[p].handle, off, <<bytes[off + 1]>>)
                /\ procs' = [procs EXCEPT ![p].off = off + 1]
                /\ UNCHANGED partial
           ELSE /\ partial' = partial \ {procs[p].handle}
                /\ procs' = [procs EXCEPT ![p].pc = "fsync"]
                /\ UNCHANGED store
    /\ UNCHANGED <<call, work, rundirs, clock, run, ops, crashed>>

\* line 56-57 and the end of the with block
BlobFsync(p) ==
    /\ At(p, "fsync")
    /\ procs' = [procs EXCEPT ![p].handle = <<>>, ![p].pc = "replace"]
    /\ UNCHANGED <<call, store, work, rundirs, clock, run, ops, crashed, partial>>

\* line 58-59
BlobReplace(p) ==
    /\ At(p, "replace")
    /\ IF procs[p].tmp \in DOMAIN store
       THEN /\ store' = Replace(store, procs[p].tmp, procs[p].dst)
            /\ partial' = ReplacePartial(partial, procs[p].tmp, procs[p].dst)
            /\ procs' = [ReplaceHandles(procs, procs[p].tmp, procs[p].dst)
                            EXCEPT ![p] = AfterBlob(procs[p])]
       ELSE /\ procs' = [procs EXCEPT ![p] = RaisedIn(procs[p], "FileNotFoundError")]
            /\ UNCHANGED <<call, store, partial>>
    /\ UNCHANGED <<call, work, rundirs, clock, run, ops, crashed>>

\* commit_tree(store, src_dir)
CallCommitTree(p, name) ==
    /\ Call(p)
    /\ work[name].kind = "dir"
    /\ procs' = [procs EXCEPT ![p] = [IdleProc EXCEPT !.op = "commit_tree", !.pc = "snapshot",
                                                      !.src = <<name, "">>]]

\* line 72-79
TreeSnapshot(p) ==
    /\ At(p, "snapshot")
    /\ LET snap == tree_snapshot(work[procs[p].src[1]].files)
           tree_file == _fanout_dir("trees", split1(snap.tree_id))
           typed_id == <<"tree">> \o snap.tree_id
           pr == [procs[p] EXCEPT !.entries = snap.entries, !.path = tree_file,
                                  !.data = <<[version |-> 1, entries |-> snap.entries]>>,
                                  !.result = typed_id]
       IN  procs' = [procs EXCEPT ![p] =
                        IF tree_file \in DOMAIN store THEN Returned(pr, typed_id)
                        ELSE IF snap.entries = <<>> THEN [pr EXCEPT !.pc = "aw_open"]
                        ELSE [pr EXCEPT !.i = 1, !.pc = "hash",
                                        !.src = <<pr.src[1], snap.entries[1].path>>]]
    /\ UNCHANGED <<call, store, work, rundirs, clock, run, ops, crashed, partial>>

\* write_manifest(store, run_id, manifest)
CallWriteManifest(p, manifest) ==
    /\ Call(p)
    /\ procs' = [procs EXCEPT ![p] = [IdleProc EXCEPT !.op = "write_manifest", !.pc = "aw_open",
                                                      !.path = manifest_path(manifest.run_id),
                                                      !.data = <<manifest>>]]

\* alias_set(store, name, target)
CallAliasSet(p, name, target) ==
    /\ Call(p)
    /\ procs' = [procs EXCEPT ![p] = [IdleProc EXCEPT !.op = "alias_set", !.pc = "aw_open",
                                                      !.path = alias_path(name),
                                                      !.data = target \o <<"\n">>]]

\* _atomic_write_bytes line 33-34: the clock is read for the name
AwOpen(p, time_ns) ==
    /\ At(p, "aw_open")
    /\ time_ns >= clock
    /\ clock' = time_ns
    /\ LET tmp == atomic_tmp(procs[p].path, time_ns)
       IN  /\ store' = OpenTrunc(store, tmp)
           /\ partial' = partial \cup {tmp}
           /\ procs' = [procs EXCEPT ![p].tmp = tmp, ![p].handle = tmp, ![p].pc = "aw_write"]
    /\ UNCHANGED <<call, work, rundirs, run, ops, crashed>>

\* line 35-36: the data leave the buffer in one write
AwWrite(p) ==
    /\ At(p, "aw_write")
    /\ store' = WriteHandle(store, procs[p].handle, 0, procs[p].data)
    /\ partial' = partial \ {procs[p].handle}
    /\ procs' = [procs EXCEPT ![p].pc = "aw_fsync"]
    /\ UNCHANGED <<call, work, rundirs, clock, run, ops, crashed>>

\* line 37 and the end of the with block
AwFsync(p) ==
    /\ At(p, "aw_fsync")
    /\ procs' = [procs EXCEPT ![p].handle = <<>>, ![p].pc = "aw_replace"]
    /\ UNCHANGED <<call, store, work, rundirs, clock, run, ops, crashed, partial>>

\* line 38
AwReplace(p) ==
    /\ At(p, "aw_replace")
    /\ IF procs[p].tmp \in DOMAIN store
       THEN /\ store' = Replace(store, procs[p].tmp, procs[p].path)
            /\ partial' = ReplacePartial(partial, procs[p].tmp, procs[p].path)
            /\ procs' = [ReplaceHandles(procs, procs[p].tmp, procs[p].path)
                            EXCEPT ![p] = Returned(procs[p], procs[p].result)]
       ELSE /\ procs' = [procs EXCEPT ![p] = RaisedIn(procs[p], "FileNotFoundError")]
            /\ UNCHANGED <<call, store, partial>>
    /\ UNCHANGED <<call, work, rundirs, clock, run, ops, crashed>>

\* the process dies inside a call: its open files are closed, what it wrote stays
Crash(p) ==
    /\ p \in DOMAIN procs
    /\ ~Ready(p)
    /\ procs' = [procs EXCEPT ![p] = IdleProc]
    /\ crashed' = crashed \cup (IF procs[p].tmp \in DOMAIN store THEN {procs[p].tmp} ELSE {})
    /\ UNCHANGED <<call, store, work, rundirs, clock, run, ops, partial>>

\* somebody edits a source file in place
ModifySource(name) ==
    /\ work[name].kind = "file"
    /\ work[name].bytes = F1
    /\ work' = [work EXCEPT ![name].bytes = F1Modified]
    /\ UNCHANGED <<call, store, rundirs, clock, run, ops, procs, crashed, partial>>

InitProcs(P) ==
    /\ store = <<>>
    /\ work = WorkInit
    /\ rundirs = <<>>
    /\ clock = 0
    /\ run = RunIdle
    /\ ops = 0
    /\ procs = [p \in P |-> IdleProc]
    /\ crashed = {}
    /\ partial = {}
    /\ call = NoApiCall

\* one process, which may crash and start again, while the sources may change
InitFiles == InitProcs({1})

NextFiles ==
    \/ \E p \in ProcIds, name \in DOMAIN WorkInit : CallCommitBlob(p, name)
    \/ \E p \in ProcIds, name \in DOMAIN WorkInit : CallCommitTree(p, name)
    \/ \E p \in ProcIds, manifest \in ManifestSamples : CallWriteManifest(p, manifest)
    \/ \E p \in ProcIds, name \in AliasNames, target \in CliTargets : CallAliasSet(p, name, target)
    \/ \E p \in ProcIds : BlobHash(p)
    \/ \E p \in ProcIds : BlobExists(p)
    \/ \E p \in ProcIds : BlobOpen(p)
    \/ \E p \in ProcIds : BlobCopy(p)
    \/ \E p \in ProcIds : BlobFsync(p)
    \/ \E p \in ProcIds : BlobReplace(p)
    \/ \E p \in ProcIds : TreeSnapshot(p)
    \/ \E p \in ProcIds, time_ns \in 0..MaxClock : AwOpen(p, time_ns)
    \/ \E p \in ProcIds : AwWrite(p)
    \/ \E p \in ProcIds : AwFsync(p)
    \/ \E p \in ProcIds : AwReplace(p)
    \/ \E p \in ProcIds : Crash(p)
    \/ \E name \in DOMAIN WorkInit : ModifySource(name)

SpecFiles == InitFiles /\ [][NextFiles]_vars

\* two processes on one store, no crash, sources left alone
InitRace == InitProcs({1, 2})

NextRace ==
    \/ \E p \in ProcIds, name \in DOMAIN WorkInit : CallCommitBlob(p, name)
    \/ \E p \in ProcIds, name \in DOMAIN WorkInit : CallCommitTree(p, name)
    \/ \E p \in ProcIds, manifest \in ManifestSamples : CallWriteManifest(p, manifest)
    \/ \E p \in ProcIds, name \in AliasNames, target \in CliTargets : CallAliasSet(p, name, target)
    \/ \E p \in ProcIds : BlobHash(p)
    \/ \E p \in ProcIds : BlobExists(p)
    \/ \E p \in ProcIds : BlobOpen(p)
    \/ \E p \in ProcIds : BlobCopy(p)
    \/ \E p \in ProcIds : BlobFsync(p)
    \/ \E p \in ProcIds : BlobReplace(p)
    \/ \E p \in ProcIds : TreeSnapshot(p)
    \/ \E p \in ProcIds, time_ns \in 0..MaxClock : AwOpen(p, time_ns)
    \/ \E p \in ProcIds : AwWrite(p)
    \/ \E p \in ProcIds : AwFsync(p)
    \/ \E p \in ProcIds : AwReplace(p)

SpecRace == InitRace /\ [][NextRace]_vars

-----------------------------------------------------------------------------
(* What the claims read *)

Manifests == {store[p][1] : p \in {q \in DOMAIN store : q[1] = "manifests"}}

\* the blob or tree that a manifest entry names is in the store
ObjectPresent(type, id) ==
    /\ id # <<>>
    /\ _fanout_dir(IF type = "dir" THEN "trees" ELSE "blobs", <<id[Len(id)]>>) \in DOMAIN store

ManifestBacked(run_id) ==
    /\ manifest_path(run_id) \in DOMAIN store
    /\ LET m == store[manifest_path(run_id)][1]
       IN  /\ \A i \in 1..Len(m.inputs) : ObjectPresent(m.inputs[i][2].type, m.inputs[i][2].id)
           /\ \A i \in 1..Len(m.outputs) : ObjectPresent(m.outputs[i][2].type, m.outputs[i][2].id)

TripleSet(d) == {<<d[i][1], d[i][2].type, d[i][2].id>> : i \in 1..Len(d)}

Idx(kind) == {i \in 1..Len(run.events) : run.events[i][1] = kind}

Before(k1, k2) == \A i \in Idx(k1), j \in Idx(k2) : i < j

InCall == run.pc \in {"workdir", "load", "core", "save", "commit", "manifest", "alias", "cleanup"}

-----------------------------------------------------------------------------
(* C1: whenever an alias file holds run:X, the manifest of X is in the    *)
(* store and so is every blob and tree its inputs and outputs name.        *)
C1_AliasToRunIsBacked ==
    \A p \in DOMAIN store :
        (p[1] = "aliases" /\ StartsWith(strip(store[p]), <<"run">>))
            => ManifestBacked(split1(strip(store[p])))

(* C2: in one run_step_file call every input is resolved and materialized  *)
(* before load is invoked; load, core, save are invoked in that order;     *)
(* every output is committed before the manifest is written; the manifest  *)
(* is written before the alias is set.                                     *)
C2_RunStepsInOrder ==
    /\ Before("resolve", "load") /\ Before("materialize", "load")
    /\ Idx("load") # {} =>
          \A k \in 1..Len(run.input_specs) :
              \E i, j \in 1..Len(run.events) :
                  /\ i < j
                  /\ run.events[i] = Event("resolve", run.input_specs[k][1])
                  /\ run.events[j] = Event("materialize", run.input_specs[k][1])
                  /\ \A l \in Idx("load") : j < l
    /\ Before("load", "core") /\ Before("core", "save")
    /\ Idx("core") # {} => Idx("load") # {}
    /\ Idx("save") # {} => Idx("core") # {}
    /\ Before("save", "commit") /\ Before("commit", "manifest")
    /\ Idx("manifest") # {} =>
          /\ Idx("save") # {}
          /\ \A n \in DOMAIN rundirs[RunHex].out :
                 \E i \in Idx("commit") : run.events[i] = Event("commit", n)
          /\ \A k \in 1..Len(run.outputs_map) :
                 ObjectPresent(run.outputs_map[k][2].type, run.outputs_map[k][2].id)
    /\ Before("manifest", "alias")
    /\ Idx("alias") # {} => (Idx("manifest") # {} /\ manifest_path(run.run_id) \in DOMAIN store)

C2_Witness ==
    /\ run.pc = "cleanup"
    /\ Len(run.input_specs) = 2
    /\ Idx("commit") # {}
    /\ Idx("alias") # {}

(* C3: a run whose code hash, set of (name, type, id) inputs, effective    *)
(* parameters and environment summary equal those recorded in a manifest   *)
(* of the store computes that manifest's run id, whatever the clock, the   *)
(* provenance, the step path, the alias and the order of the inputs.       *)
C3_SameKeySameRunId ==
    InCall =>
        \A m \in Manifests :
            ( /\ m.step.code_hash = run.code_h
              /\ TripleSet(m.inputs) = TripleSet(run.inputs_map)
              /\ m.parameters.effective = run.params_eff
              /\ m.environment.summary = run.env_summary )
            => m.run_id = run.run_id

C3_Witness ==
    /\ run.pc = "workdir"
    /\ Len(run.inputs_map) = 2
    /\ run.inputs_map # sorted(run.inputs_map)
    /\ \E m \in Manifests :
           /\ m.run_id = run.run_id
           /\ m.step.path # run.step_path
           /\ m.parameters.provenance # run.params_prov

(* C4: the manifest stored under a run id never changes: a manifest        *)
(* written under a run id that has one already is the same bytes.          *)
C4_ManifestNeverChanges ==
    [][\A p \in DOMAIN store :
           p[1] = "manifests" => (p \in DOMAIN store' /\ store'[p] = store[p])]_vars

(* C5: when load, core or save raises, the call ends with the error, and   *)
(* the manifests and the aliases are those of before the call.             *)
C5_PhaseRaiseAborts ==
    run.error \in {"load raised", "core raised", "save raised"} =>
        /\ run.pc = "raised"
        /\ \A p \in DOMAIN store \cup DOMAIN run.store0 :
               p[1] \in {"manifests", "aliases"} =>
                   /\ p \in DOMAIN store /\ p \in DOMAIN run.store0
                   /\ store[p] = run.store0[p]

C5_Witness ==
    /\ run.pc = "raised"
    /\ run.error = "save raised"
    /\ run.alias # <<>>
    /\ alias_path(run.alias) \in DOMAIN store
    /\ store # run.store0

(* C6: a run given a malformed input specification ends with the store as  *)
(* it was before the run.                                                  *)
C6_MalformedSpecNoSideEffects ==
    (run.pc = "raised" /\ run.error = "Unsupported input spec") => store = run.store0

-----------------------------------------------------------------------------
(* What the claims about the files read *)

TmpSuffixes == {".tmp"} \cup {".tmp-" \o ToString(t) : t \in 0..MaxClock}

IsTmp(p) == p[Len(p)] \in TmpSuffixes

FinalPaths == {p \in DOMAIN store : ~IsTmp(p)}

\* what a reader finds of the object a returned call has committed
Published(pr) ==
    CASE pr.op = "commit_blob" ->
            blob_path(pr.result) \in FinalPaths
      [] pr.op = "commit_tree" ->
            /\ read_tree(store, pr.result).ok
            /\ read_tree(store, pr.result).data = pr.data[1]
            /\ \A k \in 1..Len(pr.data[1].entries) :
                   blob_path(pr.data[1].entries[k].blob) \in FinalPaths
      [] OTHER ->
            pr.path \in FinalPaths /\ store[pr.path] = pr.data

(* C7: with a process that may crash at any step of commit_blob,           *)
(* commit_tree, write_manifest or alias_set, every file at a final path    *)
(* holds completely written bytes, no later call fails on what a crash     *)
(* left behind, and what a returned call committed is what a reader finds  *)
(* at the final path.                                                      *)
C7_CrashSafePublish ==
    /\ \A p \in FinalPaths : p \notin partial
    /\ \A q \in DOMAIN procs : procs[q].pc # "raised"
    /\ \A q \in DOMAIN procs : procs[q].pc = "returned" => Published(procs[q])

C7_Witness ==
    \E q \in DOMAIN procs :
        /\ procs[q].pc = "returned"
        /\ procs[q].op = "commit_blob"
        /\ blob_tmp(blob_path(procs[q].result)) \in crashed

(* C8: two processes in commit_blob on the same bytes: neither call ends   *)
(* in an error, and at every moment a blob at its final path holds the     *)
(* bytes whose digest is its name.                                         *)
C8_ConcurrentCommitBlobHarmless ==
    /\ \A q \in DOMAIN procs : procs[q].op = "commit_blob" => procs[q].pc # "raised"
    /\ \A p \in FinalPaths : p[1] = "blobs" => blob_path(sha256_bytes(store[p])) = p

(* C9: two processes in alias_set on one name: at every moment the alias   *)
(* file, if there is one, holds one whole target followed by a newline,    *)
(* and once both calls are over it holds the target of one of them.        *)
C9_ConcurrentAliasSetAtomic ==
    /\ \A name \in AliasNames :
           alias_path(name) \in DOMAIN store =>
               store[alias_path(name)] \in {t \o <<"\n">> : t \in CliTargets}
    /\ (\A q \in DOMAIN procs : procs[q].op = "alias_set" /\ Ready(q)) =>
           \E q \in DOMAIN procs : store[procs[q].path] = procs[q].data

(* C10: every file under blobs/ is named by the SHA-256 of the bytes it    *)
(* holds, also when a source changes while commit_blob is at work.         *)
C10_BlobNameIsDigest ==
    \A p \in DOMAIN store :
        (p[1] = "blobs" /\ ~IsTmp(p)) => p = blob_path(sha256_bytes(store[p]))

-----------------------------------------------------------------------------
(* The library called function by function: one process, every call run to *)
(* completion, on any store such calls can build.                          *)

\* the caller's files: f2 holds the bytes of f1, f3 other bytes
WorkStore ==
    WorkInit @@
    ("f2" :> [kind |-> "file", bytes |-> F1, files |-> <<>>]) @@
    ("f3" :> [kind |-> "file", bytes |-> <<"A">>, files |-> <<>>]) @@
    ("d0" :> [kind |-> "dir", bytes |-> <<>>, files |-> <<>>]) @@
    ("d2" :> [kind |-> "dir", bytes |-> <<>>, files |-> ("a.txt" :> F1)])

\* alias names, one of them nested
StoreAliasNames == {<<"latest">>, <<"runs/latest">>}

ApiCall(op, args, result) ==
    [op |-> op, args |-> args, result |-> result, before |-> store,
     targets |-> call.targets, digests |-> call.digests]

\* store.commit_blob(store, src)
ApiCommitBlob(name) ==
    /\ work[name].kind = "file"
    /\ LET r == commit_blob(store, work[name].bytes)
       IN  /\ store' = r.store
           /\ call' = [ApiCall("commit_blob", <<name>>, r.blob_id) EXCEPT
                          !.digests = IF work[name].bytes \in DOMAIN call.digests
                                      THEN call.digests
                                      ELSE call.digests @@ (work[name].bytes :> r.blob_id)]
    /\ UNCHANGED <<work, rundirs, clock, run, ops, procs, crashed, partial>>

\* store.commit_tree(store, src_dir)
ApiCommitTree(name) ==
    /\ work[name].kind = "dir"
    /\ LET r == commit_tree(store, work[name].files)
       IN  /\ store' = r.store
           /\ call' = ApiCall("commit_tree", <<name>>, r.typed_id)
    /\ UNCHANGED <<work, rundirs, clock, run, ops, procs, crashed, partial>>

\* store.alias_set(store, name, target)
ApiAliasSet(name, target) ==
    /\ store' = alias_set(store, name, target)
    /\ call' = [ApiCall("alias_set", <<name, target>>, <<>>) EXCEPT
                   !.targets = [n \in DOMAIN call.targets \cup {name} |->
                                   IF n = name THEN target ELSE call.targets[n]]]
    /\ UNCHANGED <<work, rundirs, clock, run, ops, procs, crashed, partial>>

\* store.alias_get(store, name)
ApiAliasGet(name) ==
    /\ call' = ApiCall("alias_get", <<name>>, alias_get(store, name))
    /\ UNCHANGED <<store, work, rundirs, clock, run, ops, procs, crashed, partial>>

\* aggregate_view.py: the reader's path functions
_store_paths(kind) == <<kind, "sha256">>

_manifest_file_for_run(run_id) ==
    _store_paths("manifests") \o <<first2(join(split1(run_id))), join(split1(run_id)), ".json">>

_blob_path(blob_id) ==
    _store_paths("blobs") \o <<first2(join(split1(blob_id))), join(split1(blob_id))>>

\* the file that _read_tree reads
_read_tree_path(tree_typed_id) ==
    _store_paths("trees") \o <<first2(join(split2(tree_typed_id))), join(split2(tree_typed_id))>>

\* the file that store.read_tree reads
read_tree_path(tree_typed_id) == _fanout_dir("trees", split2(tree_typed_id))

\* digests of objects of the three kinds
Digests ==
    {sha256_bytes(F1), sha256_bytes(<<"A">>), tree_snapshot(WorkInit["d1"].files).tree_id}

\* the path functions of the store and of the reader, applied to one digest
ApiPaths(digest) ==
    /\ call' = ApiCall("paths", <<digest>>,
                       [blob_path |-> blob_path(digest),
                        read_tree |-> read_tree_path(<<"tree">> \o digest),
                        manifest_path |-> manifest_path(digest),
                        _blob_path |-> _blob_path(digest),
                        _read_tree |-> _read_tree_path(<<"tree">> \o digest),
                        _manifest_file_for_run |-> _manifest_file_for_run(digest)])
    /\ UNCHANGED <<store, work, rundirs, clock, run, ops, procs, crashed, partial>>

\* util.prefer_link(src, dst)
ApiPreferLink(src_kind, symlink_ok, hardlink_ok) ==
    /\ call' = ApiCall("prefer_link", <<src_kind, symlink_ok, hardlink_ok>>,
                       prefer_link_at(src_kind, symlink_ok, hardlink_ok))
    /\ UNCHANGED <<store, work, rundirs, clock, run, ops, procs, crashed, partial>>

\* the typed ids of the caller's files and directories
TypedIds ==
    {IF WorkStore[n].kind = "dir"
     THEN <<"tree">> \o tree_snapshot(WorkStore[n].files).tree_id
     ELSE <<"blob">> \o sha256_file(WorkStore[n].bytes) : n \in DOMAIN WorkStore}

\* runner.materialize_input(store, typed_id, dst)
ApiMaterialize(typed_id, symlink_ok, hardlink_ok) ==
    /\ call' = ApiCall("materialize_input", <<typed_id, symlink_ok, hardlink_ok>>,
                       materialize_input(store, typed_id, symlink_ok, hardlink_ok))
    /\ UNCHANGED <<store, work, rundirs, clock, run, ops, procs, crashed, partial>>

InitStore ==
    /\ store = <<>>
    /\ work = WorkStore
    /\ rundirs = <<>>
    /\ clock = 0
    /\ run = RunIdle
    /\ ops = 0
    /\ procs = <<>>
    /\ crashed = {}
    /\ partial = {}
    /\ call = NoApiCall

NextStore ==
    \/ \E name \in DOMAIN WorkStore : ApiCommitBlob(name)
    \/ \E name \in DOMAIN WorkStore : ApiCommitTree(name)
    \/ \E name \in StoreAliasNames, target \in CliTargets : ApiAliasSet(name, target)
    \/ \E name \in StoreAliasNames : ApiAliasGet(name)
    \/ \E digest \in Digests : ApiPaths(digest)
    \/ \E typed_id \in TypedIds, symlink_ok, hardlink_ok \in BOOLEAN :
           ApiMaterialize(typed_id, symlink_ok, hardlink_ok)
    \/ \E src_kind \in {"file", "dir", "missing"}, symlink_ok, hardlink_ok \in BOOLEAN :
           ApiPreferLink(src_kind, symlink_ok, hardlink_ok)

SpecStore == InitStore /\ [][NextStore]_vars

-----------------------------------------------------------------------------
(* C12: commit_blob of bytes that were committed before returns the digest *)
(* the first commit returned and leaves the store as it was, and the store *)
(* holds exactly one blob with these bytes, under that digest.             *)
C12_CommitBlobIdempotent ==
    call.op = "commit_blob" =>
        LET bytes == work[call.args[1]].bytes
        IN  /\ call.result = call.digests[bytes]
            /\ blob_path(call.result) \in DOMAIN call.before => store = call.before
            /\ {p \in DOMAIN store : p[1] = "blobs" /\ store[p] = bytes} = {blob_path(call.result)}

C12_Witness ==
    /\ call.op = "commit_blob"
    /\ call.args = <<"f2">>
    /\ blob_path(call.result) \in DOMAIN call.before
    /\ call.before # <<>>
    /\ store = call.before

C15_PathFunctionsAgree ==
    call.op = "paths" =>
        LET hex == call.args[1][2]
            r == call.result
        IN  /\ r.blob_path = <<"blobs", "sha256", first2(hex), hex>>
            /\ r.read_tree = <<"trees", "sha256", first2(hex), hex>>
            /\ r.manifest_path = <<"manifests", "sha256", first2(hex), hex, ".json">>
            /\ r._blob_path = r.blob_path
            /\ r._read_tree = r.read_tree
            /\ r._manifest_file_for_run = r.manifest_path

(* C18: prefer_link calls symlink, then link, then copy, in that order and *)
(* stops at the first that succeeds, whose name it returns: symlink when   *)
(* the symlink succeeds, hardlink only after a failed symlink, copy only   *)
(* after both failed; an error leaves it only from the copy; link is not   *)
(* called on a directory.                                                  *)
C18_PreferLinkOrder ==
    call.op = "prefer_link" =>
        LET src_kind == call.args[1]
            symlink_ok == call.args[2]
            hardlink_ok == call.args[3]
            r == call.result
            linked == hardlink_ok /\ src_kind = "file"
        IN  /\ symlink_ok => (r.ok /\ r.method = "symlink")
            /\ r.method = "hardlink" => (r.ok /\ ~symlink_ok /\ linked)
            /\ (~symlink_ok /\ linked) => r.method = "hardlink"
            /\ r.method = "copy" => (r.ok /\ ~symlink_ok /\ ~linked)
            /\ \E n \in 1..3 :
                   /\ Len(r.calls) = n
                   /\ \A k \in 1..n : r.calls[k] \in
                          (CASE k = 1 -> {"symlink"}
                             [] k = 2 -> IF src_kind = "dir" THEN {"copytree"} ELSE {"link"}
                             [] k = 3 -> {"copy2"})
            /\ r.ok => r.method = (CASE r.calls[Len(r.calls)] = "symlink" -> "symlink"
                                     [] r.calls[Len(r.calls)] = "link" -> "hardlink"
                                     [] OTHER -> "copy")
            /\ ~r.ok => (src_kind = "missing" /\ r.calls[Len(r.calls)] = "copy2")

C18_Witness ==
    /\ call.op = "prefer_link"
    /\ call.args = <<"dir", FALSE, TRUE>>
    /\ call.result.method = "copy"
    /\ call.result.calls = <<"symlink", "copytree">>

(* C17: when materialize_input of a tree id returns, every entry of the    *)
(* tree, not only the first, is at dst/<entry.path> and refers to the      *)
(* entry's blob, for trees of zero, one and several entries, and the       *)
(* method returned is that of the first entry.                             *)
C17_MaterializeWholeTree ==
    (call.op = "materialize_input" /\ call.result.ok /\ call.result.is_dir) =>
        LET es == read_tree(store, call.args[1]).data.entries
            r == call.result
        IN  /\ DOMAIN r.links = {es[k].path : k \in 1..Len(es)}
            /\ \A k \in 1..Len(es) : r.links[es[k].path] = blob_path(es[k].blob)
            /\ r.method = IF es = <<>> THEN "copy"
                          ELSE prefer_link(TRUE, call.args[2], call.args[3]).method

-----------------------------------------------------------------------------
(* cli.py: who-built and trace *)

\* _iter_manifests walks the directories in the order the file system gives:
\* every enumeration of the manifest files is one it may produce
ManifestFiles(st) == {p \in DOMAIN st : p[1] = "manifests"}

ScanOrders(st) ==
    {o \in [1..Cardinality(ManifestFiles(st)) -> ManifestFiles(st)] :
        \A i, j \in DOMAIN o : o[i] = o[j] => i = j}

\* _who_built_scan(store, typed_id) when the manifests come in this order,
\* from the i-th on; None is <<>>
RECURSIVE who_built_from(_, _, _, _, _)
who_built_from(st, key, lookup_id, order, i) ==
    IF i > Len(order) THEN <<>>
    ELSE LET m == st[order[i]][1]
         IN  IF \E k \in 1..Len(m.outputs) :
                    m.outputs[k][2].type = key /\ m.outputs[k][2].id = lookup_id
             THEN m.run_id
             ELSE who_built_from(st, key, lookup_id, order, i + 1)

_who_built_scan(st, typed_id, order) ==
    IF StartsWith(typed_id, <<"blob", "sha256">>)
    THEN [ok |-> TRUE, run_id |-> who_built_from(st, "file", split2(typed_id), order, 1)]
    ELSE IF StartsWith(typed_id, <<"tree", "sha256">>)
    THEN [ok |-> TRUE, run_id |-> who_built_from(st, "dir", split2(typed_id), order, 1)]
    ELSE [ok |-> FALSE, run_id |-> <<>>]

\* the children that line 249-252 push for the inputs of a manifest
trace_children(m, depth) ==
    [k \in 1..Len(m.inputs) |->
        <<(IF m.inputs[k][2].type = "file" THEN <<"blob", "sha256">> ELSE <<"tree", "sha256">>)
              \o m.inputs[k][2].id, depth + 1>>]

AdoptedLabel == <<"(no producing run; likely adopted source)">>

\* _trace_to_sources: the lines yielded, each with its depth, from a stack on
RECURSIVE trace_from(_, _, _, _, _)
trace_from(st, order, stack, seen, lines) ==
    IF stack = <<>> THEN lines
    ELSE LET tid == stack[Len(stack)][1]
             depth == stack[Len(stack)][2]
             rest == SubSeq(stack, 1, Len(stack) - 1)
             w == _who_built_scan(st, tid, order)
         IN  IF tid \in seen THEN trace_from(st, order, rest, seen, Append(lines, <<depth, tid>>))
             ELSE IF ~w.ok THEN Append(Append(lines, <<depth, tid>>), <<depth, <<"SystemExit">>>>)
             ELSE IF w.run_id = <<>>
             THEN trace_from(st, order, rest, seen \cup {tid},
                             lines \o << <<depth, tid>>, <<depth + 1, AdoptedLabel>> >>)
             ELSE trace_from(st, order,
                             rest \o trace_children(st[manifest_path(w.run_id)][1], depth),
                             seen \cup {tid}, Append(lines, <<depth, tid>>))

_trace_to_sources(st, typed_id, order) == trace_from(st, order, << <<typed_id, 0>> >>, {}, <<>>)

-----------------------------------------------------------------------------
(* What the claims about lineage read *)

\* the typed id of the object that a manifest entry records: blob:sha256:hex
\* for a file, tree:sha256:hex for a directory, hex the digest of the object
EntryTypedId(e) ==
    <<IF e.type = "file" THEN "blob" ELSE "tree", "sha256", e.id[Len(e.id)]>>

\* the runs that have the object among their outputs
Producers(tid) ==
    {m \in Manifests : \E k \in 1..Len(m.outputs) : EntryTypedId(m.outputs[k][2]) = tid}

\* the objects reachable from a set of objects through the inputs of their producers
RECURSIVE Lineage(_, _)
Lineage(todo, seen) ==
    IF todo \subseteq seen THEN seen
    ELSE Lineage(UNION {{EntryTypedId(m.inputs[k][2]) : k \in 1..Len(m.inputs)} :
                            m \in UNION {Producers(t) : t \in todo}},
                 seen \cup todo)

AdoptedSources(tid) == {t \in Lineage({tid}, {}) : Producers(t) = {}}

(* C13: for every manifest of the store and every output it records,       *)
(* who_built of the output's typed id returns the run id of that manifest. *)
C13_WhoBuiltFindsRun ==
    \A m \in Manifests : \A k \in 1..Len(m.outputs) : \A order \in ScanOrders(store) :
        _who_built_scan(store, EntryTypedId(m.outputs[k][2]), order).run_id = m.run_id

(* C14: for every output of a run, every object that its lineage reaches   *)
(* and that no run produced is in the trace under its typed id, followed   *)
(* by the label of an adopted source.                                      *)
C14_TraceReachesSources ==
    \A m \in Manifests : \A k \in 1..Len(m.outputs) : \A order \in ScanOrders(store) :
        LET lines == _trace_to_sources(store, EntryTypedId(m.outputs[k][2]), order)
        IN  \A src \in AdoptedSources(EntryTypedId(m.outputs[k][2])) :
                \E i \in 1..(Len(lines) - 1) :
                    lines[i][2] = src /\ lines[i + 1][2] = AdoptedLabel

\* the input a run in its resolve step is about to resolve
NextInputSpec == run.input_specs[Len(run.inputs_map) + 1][2]

ResolvingMissingAlias ==
    /\ run.pc = "resolve"
    /\ Len(run.inputs_map) < Len(run.input_specs)
    /\ StartsWith(NextInputSpec, <<"alias">>)
    /\ alias_path(split1(NextInputSpec)) \notin DOMAIN store

(* C20: when a run resolves an input alias:<name> and the store has no     *)
(* such alias, the run ends raised, its message is "Alias not found: "     *)
(* followed by the specification with the alias name, and the manifests    *)
(* and aliases of the store are those from before the run.                 *)
C20_MissingAliasAborts ==
    [][ResolvingMissingAlias =>
          /\ run'.pc = "raised"
          /\ run'.error = "Alias not found: " \o "alias:" \o join(split1(NextInputSpec))
          /\ \A p \in DOMAIN store' \cup DOMAIN run.store0 :
                 p[1] \in {"manifests", "aliases"} =>
                     /\ p \in DOMAIN store' /\ p \in DOMAIN run.store0
                     /\ store'[p] = run.store0[p]]_vars

C20_Witness ==
    /\ run.pc = "raised"
    /\ run.error = "Alias not found: alias:latest"
    /\ run.alias # <<>>
    /\ Manifests # {}
    /\ alias_path(<<"latest">>) \notin DOMAIN store

-----------------------------------------------------------------------------
(* Alias resolution, frame by frame *)

\* sys.getrecursionlimit() of CPython as shipped: a call that would make the
\* stack deeper raises RecursionError.  The frames of the callers are not
\* counted here, so the code follows a few alias steps fewer than this.
getrecursionlimit == 1000

AliasTargets ==
    { <<"alias", "latest">>, <<"alias", "runs/latest">>, <<"run", "sha256", "dead">>,
      <<"latest">> }

ResolveSpecs == { <<"alias", "latest">>, <<"alias", "runs/latest">>, <<"latest">> }

\* call.targets: the argument of each frame on the stack, the innermost last
Resolving == call.op \in {"resolve_input_spec", "_resolve_run_identifier"} /\ call.result = <<>>

\* `repro alias set NAME TARGET` between two resolutions
AliasCmd(name, target) ==
    /\ ~Resolving
    /\ store' = alias_set(store, name, target)
    /\ call' = NoApiCall
    /\ UNCHANGED <<work, rundirs, clock, run, ops, procs, crashed, partial>>

\* resolve_input_spec(store, spec) or _resolve_run_identifier(store, value) is called
ResolveCall(op, spec) ==
    /\ ~Resolving
    /\ call' = [NoApiCall EXCEPT !.op = op, !.args = <<spec>>, !.before = store,
                                 !.targets = <<spec>>]
    /\ UNCHANGED <<store, work, rundirs, clock, run, ops, procs, crashed, partial>>

\* the innermost frame follows an alias to target: one more frame, or RecursionError
Recurse(target) ==
    IF Len(call.targets) >= getrecursionlimit
    THEN [call EXCEPT !.result = Raised(store, "RecursionError")]
    ELSE [call EXCEPT !.targets = Append(@, target)]

\* one frame of runner.resolve_input_spec
ResolveFrame ==
    /\ Resolving
    /\ call.op = "resolve_input_spec"
    /\ LET spec == call.targets[Len(call.targets)]
           target == alias_get(store, split1(spec))
           r == resolve_input_spec(store, work, spec, 0)
       IN  IF StartsWith(spec, <<"alias">>)
           THEN /\ call' = IF target = <<>>
                           THEN [call EXCEPT !.result = Raised(store, alias_not_found(spec))]
                           ELSE Recurse(target)
                /\ store' = store
           ELSE /\ call' = [call EXCEPT !.result = r]
                /\ store' = r.store
    /\ UNCHANGED <<work, rundirs, clock, run, ops, procs, crashed, partial>>

\* aggregate_view._resolve_alias; None is <<>>
_resolve_alias(st, name) ==
    IF <<"aliases">> \o name \notin DOMAIN st THEN <<>> ELSE strip(st[<<"aliases">> \o name])

\* one frame of aggregate_view._resolve_run_identifier
ResolveRunFrame ==
    /\ Resolving
    /\ call.op = "_resolve_run_identifier"
    /\ LET value == call.targets[Len(call.targets)]
           name == IF StartsWith(value, <<"alias">>) THEN split1(value) ELSE value
           target == _resolve_alias(store, name)
       IN  call' = IF StartsWith(value, <<"run", "sha256">>)
                   THEN [call EXCEPT !.result = Resolved(store, split1(value), NoEntry)]
                   ELSE IF StartsWith(value, <<"sha256">>)
                   THEN [call EXCEPT !.result = Resolved(store, value, NoEntry)]
                   ELSE IF target = <<>>
                   THEN [call EXCEPT !.result = Raised(store, alias_not_found(value))]
                   ELSE Recurse(target)
    /\ UNCHANGED <<store, work, rundirs, clock, run, ops, procs, crashed, partial>>

NextAlias ==
    \/ \E name \in StoreAliasNames, target \in AliasTargets : AliasCmd(name, target)
    \/ \E spec \in ResolveSpecs : ResolveCall("resolve_input_spec", spec)
    \/ \E value \in ResolveSpecs : ResolveCall("_resolve_run_identifier", value)
    \/ ResolveFrame
    \/ ResolveRunFrame

SpecAlias == InitStore /\ [][NextAlias]_vars

(* C19: a resolution follows at most a small number of alias steps, 32     *)
(* in the spec's example, whatever the aliases point at; after them it     *)
(* has ended with a result or an error.                                    *)
C19_AliasStepsBounded ==
    call.op \in {"resolve_input_spec", "_resolve_run_identifier"} =>
        Len(call.targets) - 1 <= 32

-----------------------------------------------------------------------------
(* Runs whose inputs name objects of the store directly *)

\* the ids a user can have from an earlier store, or from `repro adopt` elsewhere
F1Blob == <<"blob">> \o sha256_file(F1)

D1Tree == commit_tree(<<>>, WorkInit["d1"].files).typed_id

InputMapsDirect ==
    { << <<"my_input", F1Blob>> >>,
      << <<"my_input", D1Tree>> >>,
      << <<"my_input", <<"alias", "latest">> >> >>,
      << <<"my_input", <<"@", "f1">> >> >>,
      << <<"my_input", <<"@", "f1">> >>, <<"aux", D1Tree>> >> }

NextInputs ==
    \/ \E inv \in {Base, [Base EXCEPT !.alias = <<"latest">>]}, input_specs \in InputMapsDirect :
           RunStart(inv, input_specs)
    \/ \E symlink_ok, hardlink_ok \in BOOLEAN : RunResolve(symlink_ok, hardlink_ok)
    \/ RunHash
    \/ RunWorkdir
    \/ \E fault \in BOOLEAN : RunLoad(fault)
    \/ \E fault \in BOOLEAN : RunCore(fault)
    \/ \E fault \in BOOLEAN : RunSave(fault)
    \/ RunCommit
    \/ \E now \in 0..MaxClock : RunManifest(now)
    \/ RunAlias
    \/ RunCleanup
    \/ \E path \in DOMAIN WorkInit : Adopt(path, <<>>)
    \/ \E name \in AliasNames, target \in {F1Blob, D1Tree} : AliasSet(name, target)

SpecInputs == Init /\ [][NextInputs]_vars

(* C11: every blob and tree that a manifest of the store lists among its   *)
(* inputs and outputs is in the store; a run that has got past the copy of *)
(* its inputs has every input in the store; and a run that ended on a      *)
(* missing object has written no manifest.                                 *)
C11_ManifestObjectsExist ==
    /\ \A m \in Manifests : ManifestBacked(m.run_id)
    /\ run.pc \in {"load", "core", "save", "commit", "manifest", "alias", "cleanup"} =>
           \A i \in 1..Len(run.inputs_map) :
               ObjectPresent(run.inputs_map[i][2].type, run.inputs_map[i][2].id)
    /\ (run.pc = "raised" /\ run.error = "FileNotFoundError") =>
           \A p \in DOMAIN store : p[1] = "manifests" => p \in DOMAIN run.store0

C11_Witness ==
    /\ run.pc = "raised"
    /\ run.error = "FileNotFoundError"
    /\ run.input_specs = << <<"my_input", F1Blob>> >>
    /\ run.run_id # <<>>
    /\ blob_path(sha256_file(F1)) \notin DOMAIN store
    /\ store # <<>>

-----------------------------------------------------------------------------
(* C21: no step changes a blob or a tree that is in the store, and no step *)
(* changes a manifest of another run id than that of the run in progress,  *)
(* or one that records other effective parameters than this run's: a run   *)
(* with another parameter value leaves the manifest of the first in place. *)
C21_RunsOnlyAddToStore ==
    [][\A p \in DOMAIN store :
           ( \/ p[1] \in {"blobs", "trees"}
             \/ /\ p[1] = "manifests"
                /\ \/ store[p][1].run_id # run.run_id
                   \/ store[p][1].parameters.effective # run.params_eff )
           => (p \in DOMAIN store' /\ store'[p] = store[p])]_vars

C21_Witness ==
    \E m1, m2 \in Manifests :
        /\ m1.parameters.effective # m2.parameters.effective
        /\ m1.step.code_hash = m2.step.code_hash
        /\ m1.inputs = m2.inputs
        /\ m1.environment = m2.environment
        /\ m1.run_id # m2.run_id
        /\ run.pc = "returned"

-----------------------------------------------------------------------------
(* Runs of a step with several outputs *)

InvocationsMulti ==
    { [Base EXCEPT !.step_path = "multi.py"],
      [Base EXCEPT !.step_path = "multi.py", !.alias = <<"latest">>],
      [Base EXCEPT !.step_path = "append.py"] }

InputMapsMulti ==
    { << <<"my_input", <<"@", "f1">> >> >>,
      << <<"my_input", <<"@", "f1">> >>, <<"aux", <<"@", "d1">> >> >>,
      << <<"aux", <<"@", "d1">> >>, <<"my_input", <<"@", "f1">> >> >> }

NextOutputs ==
    \/ \E inv \in InvocationsMulti, input_specs \in InputMapsMulti : RunStart(inv, input_specs)
    \/ \E symlink_ok, hardlink_ok \in BOOLEAN : RunResolve(symlink_ok, hardlink_ok)
    \/ RunHash
    \/ RunWorkdir
    \/ \E fault \in BOOLEAN : RunLoad(fault)
    \/ \E fault \in BOOLEAN : RunCore(fault)
    \/ \E fault \in BOOLEAN : RunSave(fault)
    \/ RunCommit
    \/ \E now \in 0..MaxClock : RunManifest(now)
    \/ RunAlias
    \/ RunCleanup

SpecOutputs == Init /\ [][NextOutputs]_vars

Ascending(d) == \A i, j \in 1..Len(d) : i < j => Rank(d[i][1]) < Rank(d[j][1])

(* C22: in every manifest of the store the inputs are in ascending order   *)
(* of their logical names, and so are the outputs.                         *)
C22_ManifestListsSorted ==
    \A m \in Manifests : Ascending(m.inputs) /\ Ascending(m.outputs)

C22_Witness ==
    \E m \in Manifests :
        /\ Len(m.outputs) = 3
        /\ Len(m.inputs) = 2
        /\ run.pc = "alias"
        /\ run.run_id = m.run_id
        /\ run.inputs_map # sorted(run.inputs_map)

\* the manifest that the run in progress has written
RunManifestWritten == store[manifest_path(run.run_id)][1]

(* C27: the outputs of the manifest a run has written are the top-level    *)
(* entries of its output directory, one each under the entry's name: a     *)
(* file as type file with the digest of its bytes, and the blob is in the  *)
(* store; a directory as type dir with the digest of the tree of its       *)
(* nested files, and the tree and the blobs of its files are in the store. *)
C27_OutputsAreTopLevelEntries ==
    run.pc \in {"alias", "cleanup"} =>
        LET out == rundirs[RunHex].out
            outputs == RunManifestWritten.outputs
        IN  /\ Len(outputs) = Cardinality(DOMAIN out)
            /\ {outputs[k][1] : k \in 1..Len(outputs)} = DOMAIN out
            /\ \A k \in 1..Len(outputs) :
                   LET e == out[outputs[k][1]]
                       o == outputs[k][2]
                   IN  IF e.is_dir
                       THEN /\ o.type = "dir"
                            /\ <<"tree">> \o o.id = <<"tree">> \o tree_snapshot(e.files).tree_id
                            /\ read_tree(store, <<"tree">> \o o.id).ok
                            /\ \A p \in DOMAIN e.files :
                                   /\ blob_path(sha256_file(e.files[p])) \in DOMAIN store
                                   /\ store[blob_path(sha256_file(e.files[p]))] = e.files[p]
                       ELSE /\ o.type = "file"
                            /\ <<"sha256">> \o o.id = sha256_file(e.bytes)
                            /\ store[blob_path(sha256_file(e.bytes))] = e.bytes

C27_Witness ==
    /\ run.pc = "alias"
    /\ DOMAIN rundirs[RunHex].out = {"z.txt", "a_dir", "b.txt"}
    /\ Len(RunManifestWritten.outputs) = 3
    /\ DOMAIN rundirs[RunHex].out["a_dir"].files = {"x.txt", "sub/y.txt"}

-----------------------------------------------------------------------------
(* hashing.tree_snapshot on directories that are edited between the calls *)

TreeDirs == {"x", "y"}

TreePaths == {"a.txt", "sub/b.txt"}

TreeBytes == { <<>>, <<"A">> }

\* a directory: its regular files, and the mtime they carry
EmptyDir == [kind |-> "dir", bytes |-> <<>>, files |-> <<>>, mtime |-> 0]

\* a file is created or rewritten
TreeWrite(d, path, bytes) ==
    /\ work' = [work EXCEPT ![d].files =
                   [p \in DOMAIN @ \cup {path} |-> IF p = path THEN bytes ELSE @[p]]]
    /\ UNCHANGED <<call, store, rundirs, clock, run, ops, procs, crashed, partial>>

\* a file is removed
TreeRemove(d, path) ==
    /\ path \in DOMAIN work[d].files
    /\ work' = [work EXCEPT ![d].files = [p \in DOMAIN @ \ {path} |-> @[p]]]
    /\ UNCHANGED <<call, store, rundirs, clock, run, ops, procs, crashed, partial>>

\* the metadata of the files is rewritten, their bytes are not
TreeTouch(d) ==
    /\ work[d].files # <<>>
    /\ work' = [work EXCEPT ![d].mtime = 1 - @]
    /\ UNCHANGED <<call, store, rundirs, clock, run, ops, procs, crashed, partial>>

\* tree_snapshot(root): call.digests keeps, for each directory, what it held
\* at its last snapshot and what the snapshot returned
TreeSnap(d) ==
    /\ LET r == tree_snapshot(work[d].files)
       IN  call' = [ApiCall("tree_snapshot", <<d>>, r) EXCEPT
                       !.digests = [n \in DOMAIN @ \cup {d} |->
                                       IF n = d
                                       THEN [files |-> work[d].files, mtime |-> work[d].mtime,
                                             tree_id |-> r.tree_id, entries |-> r.entries]
                                       ELSE @[n]]]
    /\ UNCHANGED <<store, work, rundirs, clock, run, ops, procs, crashed, partial>>

InitTree ==
    /\ store = <<>>
    /\ work = [d \in TreeDirs |-> EmptyDir]
    /\ rundirs = <<>>
    /\ clock = 0
    /\ run = RunIdle
    /\ ops = 0
    /\ procs = <<>>
    /\ crashed = {}
    /\ partial = {}
    /\ call = NoApiCall

NextTree ==
    \/ \E d \in TreeDirs, path \in TreePaths, bytes \in TreeBytes : TreeWrite(d, path, bytes)
    \/ \E d \in TreeDirs, path \in TreePaths : TreeRemove(d, path)
    \/ \E d \in TreeDirs : TreeTouch(d)
    \/ \E d \in TreeDirs : TreeSnap(d)

SpecTree == InitTree /\ [][NextTree]_vars

(* C23: two snapshots return the same tree id exactly when the directories *)
(* held the same files with the same bytes, whatever the mtime; the        *)
(* entries of a snapshot are the files in ascending path order; the id     *)
(* of a directory without files is the digest of the empty pair list.      *)
C23_TreeIdIsFunctionOfContent ==
    /\ \A d1, d2 \in DOMAIN call.digests :
           (call.digests[d1].tree_id = call.digests[d2].tree_id)
               <=> (call.digests[d1].files = call.digests[d2].files)
    /\ \A d \in DOMAIN call.digests :
           LET s == call.digests[d]
           IN  /\ {s.entries[i].path : i \in 1..Len(s.entries)} = DOMAIN s.files
               /\ Len(s.entries) = Cardinality(DOMAIN s.files)
               /\ \A i, j \in 1..Len(s.entries) :
                      i < j => Rank(s.entries[i].path) < Rank(s.entries[j].path)
               /\ s.files = <<>> => s.tree_id = sha256_bytes(canonical_json(<<>>))

\* same files under another mtime, one of them empty; and the same directory
\* without the empty file has another id
C23_Witness ==
    /\ DOMAIN call.digests = TreeDirs
    /\ call.digests["x"].files = call.digests["y"].files
    /\ call.digests["x"].mtime # call.digests["y"].mtime
    /\ call.digests["x"].files = ("a.txt" :> <<"A">>) @@ ("sub/b.txt" :> <<>>)
    /\ work["y"].files = ("a.txt" :> <<"A">>)
    /\ tree_snapshot(work["y"].files).tree_id # call.digests["y"].tree_id

(* C24: for a manifest with two adopted inputs and each of its outputs,    *)
(* the trace of the output has a line with the run id of the manifest,     *)
(* and after it, for each of the two inputs, a line with the input's       *)
(* typed id followed by the label of an adopted source.                    *)
C24_TraceOfTwoAdoptedInputs ==
    \A m \in Manifests :
        (Len(m.inputs) = 2 /\ \A n \in 1..2 : m.inputs[n][2].origin = "adopted") =>
            \A k \in 1..Len(m.outputs) : \A order \in ScanOrders(store) :
                LET lines == _trace_to_sources(store, EntryTypedId(m.outputs[k][2]), order)
                IN  \E i \in 1..Len(lines) :
                        /\ lines[i][2] = m.run_id
                        /\ \A n \in 1..2 :
                               \E j \in (i + 1)..(Len(lines) - 1) :
                                   /\ lines[j][2] = EntryTypedId(m.inputs[n][2])
                                   /\ lines[j + 1][2] = AdoptedLabel

-----------------------------------------------------------------------------
(* store.py file by file while the directory being committed is edited *)

\* somebody rewrites a file of a source directory in place
ModifyTreeFile(name, path) ==
    /\ work[name].kind = "dir"
    /\ path \in DOMAIN work[name].files
    /\ work[name].files[path] = WorkInit[name].files[path]
    /\ work' = [work EXCEPT ![name].files[path] = <<"X">>]
    /\ UNCHANGED <<call, store, rundirs, clock, run, ops, procs, crashed, partial>>

NextTreeFiles ==
    \/ NextFiles
    \/ \E path \in {"a.txt", "sub/b.txt"} : ModifyTreeFile("d1", path)

SpecTreeFiles == InitFiles /\ [][NextTreeFiles]_vars

(* C25: every blob that an entry of a tree file of the store names is in   *)
(* the store, in every state, a crash inside commit_tree included.         *)
C25_TreeBlobsPresent ==
    \A p \in FinalPaths :
        (p[1] = "trees" /\ store[p] # <<>>) =>
            \A k \in 1..Len(store[p][1].entries) :
                blob_path(store[p][1].entries[k].blob) \in FinalPaths

-----------------------------------------------------------------------------
(* `repro trace` over manifests that anybody may have written to the store *)

\* the longest output the model lets a trace print before it is cut off
MaxTraceLines == 24

\* a faulty loop: the popped id is not marked
mark_seen_never(seen, tid) == seen

\* cli.py line 241: seen.add(tid)
mark_seen(seen, tid) == seen \cup {tid}

\* the entries of hand-written manifests: type and hex digest
TraceEntries ==
    {[type |-> "file", id |-> <<"x">>], [type |-> "file", id |-> <<"y">>],
     [type |-> "dir", id |-> <<"x">>]}

TraceRunIds == {<<"sha256", "r1">>, <<"sha256", "r2">>}

TraceInputLists ==
    {<<>>} \cup {<< <<"a", e>> >> : e \in TraceEntries}
           \cup {<< <<"a", e>>, <<"b", f>> >> : e \in TraceEntries, f \in TraceEntries}

TraceOutputLists == {<<>>} \cup {<< <<"out", e>> >> : e \in TraceEntries}

\* the ids `repro trace` is called with; the last is not a blob or tree id
TraceStarts ==
    {<<IF e.type = "file" THEN "blob" ELSE "tree", "sha256">> \o e.id : e \in TraceEntries}
        \cup {<<"run", "sha256", "r1">>}

Tracing == call.op = "trace" /\ call.result.stack # <<>>

\* store.write_manifest(store, run_id, manifest) with a manifest of any shape
ApiWriteManifest(run_id, inputs, outputs) ==
    /\ ~Tracing
    /\ store' = write_manifest(store, run_id,
                               [run_id |-> run_id, inputs |-> inputs, outputs |-> outputs])
    /\ call' = NoApiCall
    /\ UNCHANGED <<work, rundirs, clock, run, ops, procs, crashed, partial>>

\* _trace_to_sources line 233-234; expanded counts the times an id got past line 240
TraceStart(typed_id) ==
    /\ ~Tracing
    /\ call' = [NoApiCall EXCEPT !.op = "trace", !.args = <<typed_id>>, !.before = store,
                                 !.result = [stack |-> << <<typed_id, 0>> >>, seen |-> {},
                                             lines |-> <<>>, expanded |-> <<>>]]
    /\ UNCHANGED <<store, work, rundirs, clock, run, ops, procs, crashed, partial>>

\* one turn of the loop of line 235-252, the manifests scanned in this order
trace_step(st, order, t) ==
    LET tid == t.stack[Len(t.stack)][1]
        depth == t.stack[Len(t.stack)][2]
        rest == SubSeq(t.stack, 1, Len(t.stack) - 1)
        w == _who_built_scan(st, tid, order)
        count == IF tid \in DOMAIN t.expanded THEN t.expanded[tid] ELSE 0
        more == [q \in DOMAIN t.expanded \cup {tid} |->
                    IF q = tid THEN count + 1 ELSE t.expanded[q]]
    IN  IF tid \in t.seen
        THEN [t EXCEPT !.stack = rest, !.lines = Append(t.lines, <<depth, tid>>)]
        ELSE IF ~w.ok
        THEN [t EXCEPT !.stack = <<>>, !.seen = mark_seen(t.seen, tid), !.expanded = more,
                       !.lines = t.lines \o << <<depth, tid>>, <<depth, <<"SystemExit">>>> >>]
        ELSE IF w.run_id = <<>>
        THEN [t EXCEPT !.stack = rest, !.seen = mark_seen(t.seen, tid), !.expanded = more,
                       !.lines = t.lines \o << <<depth, tid>>, <<depth + 1, AdoptedLabel>> >>]
        ELSE [t EXCEPT !.stack = rest \o trace_children(st[manifest_path(w.run_id)][1], depth),
                       !.seen = mark_seen(t.seen, tid), !.expanded = more,
                       !.lines = Append(t.lines, <<depth, tid>>)]

TraceStep ==
    /\ Tracing
    /\ Len(call.result.lines) < MaxTraceLines
    /\ \E order \in ScanOrders(store) :
           call' = [call EXCEPT !.result = trace_step(store, order, call.result)]
    /\ UNCHANGED <<store, work, rundirs, clock, run, ops, procs, crashed, partial>>

NextTrace ==
    \/ \E run_id \in TraceRunIds, inputs \in TraceInputLists, outputs \in TraceOutputLists :
           ApiWriteManifest(run_id, inputs, outputs)
    \/ \E typed_id \in TraceStarts : TraceStart(typed_id)
    \/ TraceStep

\* the loop of the generator runs on while the command runs
SpecTrace == InitStore /\ [][NextTrace]_vars /\ WF_vars(TraceStep)

(* C26: trace ends whatever the manifests of the store are, those of runs   *)
(* that consume what they produce included: no typed id gets past the      *)
(* visited test more than once, and a trace that was started reaches the   *)
(* empty stack.                                                            *)
C26_TraceTerminates ==
    /\ [](call.op = "trace" =>
            \A tid \in DOMAIN call.result.expanded : call.result.expanded[tid] <= 1)
    /\ (Tracing ~> (call.op = "trace" /\ call.result.stack = <<>>))

\* a trace has ended that met an id again which it had expanded: a cycle, the
\* run that produces the id reads it through its own inputs
C26_Witness ==
    /\ call.op = "trace"
    /\ call.result.stack = <<>>
    /\ \E i, j \in 1..Len(call.result.lines) :
          /\ i < j
          /\ call.result.lines[i][2] = call.args[1]
          /\ call.result.lines[j][2] = call.args[1]
          /\ call.result.lines[j][1] > 1

-----------------------------------------------------------------------------
(* Steps that write to their inputs under the working directory *)

\* a faulty placement: the inputs are linked into run_dir/in with prefer_link,
\* so that a file there is the blob the link of in_temp points at
workdir_inode_linked(link) == link

\* lines 163-172: shutil.copytree and shutil.copy2 read through the links of
\* in_temp and write files of their own under run_dir/in.  The store file that
\* such a file shares its bytes with; <<>>: none
workdir_inode(link) == <<>>

InvocationsWrite == { Base, [Base EXCEPT !.step_path = "append.py"] }

InputMapsWrite ==
    { << <<"my_input", <<"@", "f1">> >> >>,
      << <<"my_input", <<"@", "f1">> >>, <<"aux", <<"@", "d1">> >> >> }

\* the materialization of the input with this name in in_temp
InTemp(name) == run.in_temp[CHOOSE i \in 1..Len(run.in_temp) : run.in_temp[i][1] = name][2]

\* a phase of the step writes to a file of an input:
\* open(ctx.input_dir / name [/ path], "a" or "w").write("Z")
StepWriteInput(name, path, append) ==
    /\ run.pc \in {"load", "core", "save"}
    /\ name \in DOMAIN rundirs[RunHex].in
    /\ LET e == rundirs[RunHex].in[name]
           old == IF e.is_dir THEN e.files[path] ELSE e.bytes
           new == IF append THEN old \o <<"Z">> ELSE <<"Z">>
           inode == workdir_inode(InTemp(name).links[path])
       IN  /\ path \in (IF e.is_dir THEN DOMAIN e.files ELSE {""})
           /\ \A k \in 1..Len(old) : old[k] # "Z"
           /\ rundirs' = IF e.is_dir THEN [rundirs EXCEPT ![RunHex].in[name].files[path] = new]
                         ELSE [rundirs EXCEPT ![RunHex].in[name].bytes = new]
           /\ store' = IF inode = <<>> THEN store
                       ELSE [q \in DOMAIN store |-> IF q = inode THEN new ELSE store[q]]
    /\ UNCHANGED <<call, work, clock, run, ops, procs, crashed, partial>>

NextWrite ==
    \/ \E inv \in InvocationsWrite, input_specs \in InputMapsWrite : RunStart(inv, input_specs)
    \/ \E symlink_ok, hardlink_ok \in BOOLEAN : RunResolve(symlink_ok, hardlink_ok)
    \/ RunHash
    \/ RunWorkdir
    \/ \E name \in {"my_input", "aux"}, path \in {"", "a.txt"}, append \in BOOLEAN :
           StepWriteInput(name, path, append)
    \/ \E fault \in BOOLEAN : RunLoad(fault)
    \/ \E fault \in BOOLEAN : RunCore(fault)
    \/ \E fault \in BOOLEAN : RunSave(fault)
    \/ RunCommit
    \/ \E now \in 0..MaxClock : RunManifest(now)
    \/ RunAlias
    \/ RunCleanup

SpecWrite == Init /\ [][NextWrite]_vars

-----------------------------------------------------------------------------
(* Two calls of run_step_file at a time, in two processes *)

\* run is the record of the call whose process takes the next step, procs holds
\* the record of the other
Parked == IF procs = <<>> THEN RunIdle ELSE procs[1]

\* the scheduler lets the other process go on
Switch ==
    /\ run.pc # "idle" \/ Parked.pc # "idle"
    /\ run' = Parked
    /\ procs' = <<run>>
    /\ UNCHANGED <<call, store, work, rundirs, clock, ops, crashed, partial>>

InvocationsTwo == { Base, [Base EXCEPT !.params_eff = ("suffix" :> "?")] }

InputMapsTwo == { << <<"my_input", <<"@", "f1">> >> >> }

\* the working directory of this run is there: the other run has not removed it
HasRunDir == run.run_id # <<>> /\ RunHex \in DOMAIN rundirs

\* line 177 after the other run's rmtree: open_input finds no file
RunLoadGone ==
    /\ run.pc = "load"
    /\ ~HasRunDir
    /\ run' = Abort([run EXCEPT !.events = Append(@, Event("load", ""))], "load raised")
    /\ UNCHANGED <<call, store, work, rundirs, clock, ops, procs, crashed, partial>>

\* line 179 after the other run's rmtree: the save of examples/test.py makes
\* out/result_dir with its parents and writes out.txt
RunSaveGone ==
    /\ run.pc = "save"
    /\ ~HasRunDir
    /\ StepModules[run.step_path].ast = "upper"
    /\ rundirs' = rundirs @@
           (RunHex :> [in |-> <<>>,
                       out |-> StepSave(StepModules[run.step_path].ast, run.results)])
    /\ run' = [run EXCEPT !.pc = NextPc("save"), !.events = Append(@, Event("save", ""))]
    /\ UNCHANGED <<call, store, work, clock, ops, procs, crashed, partial>>

\* line 182 and line 91 after the other run's rmtree: out_dir.exists() is false
\* and nothing is scanned
RunCommitGone ==
    /\ run.pc = "commit"
    /\ ~HasRunDir
    /\ run' = [run EXCEPT !.pc = NextPc("commit"), !.outputs_map = <<>>]
    /\ UNCHANGED <<call, store, work, rundirs, clock, ops, procs, crashed, partial>>

NextTwo ==
    \/ \E inv \in InvocationsTwo, input_specs \in InputMapsTwo : RunStart(inv, input_specs)
    \/ \E symlink_ok, hardlink_ok \in BOOLEAN : RunResolve(symlink_ok, hardlink_ok)
    \/ RunHash
    \/ RunWorkdir
    \/ \E fault \in BOOLEAN : HasRunDir /\ RunLoad(fault)
    \/ \E fault \in BOOLEAN : RunCore(fault)
    \/ \E fault \in BOOLEAN : HasRunDir /\ RunSave(fault)
    \/ HasRunDir /\ RunCommit
    \/ \E now \in 0..MaxClock : RunManifest(now)
    \/ RunAlias
    \/ RunCleanup
    \/ RunLoadGone
    \/ RunSaveGone
    \/ RunCommitGone
    \/ Switch

SpecTwo == Init /\ [][NextTwo]_vars

(* C29: with two runs in progress at a time, of the same run id or not,    *)
(* every manifest in the store at any moment, and so the one that is there *)
(* when both have ended, lists exactly the outputs that the save phase of  *)
(* its step writes.                                                        *)
C29_ManifestsListAllOutputs ==
    \A m \in Manifests :
        {m.outputs[k][1] : k \in 1..Len(m.outputs)}
            = DOMAIN StepSave(StepModules[m.step.path].ast, <<>>)

-----------------------------------------------------------------------------
(* The same file or directory named as a path, by its id, or through an alias *)

InputMapsSame ==
    { << <<"my_input", <<"@", "f1">> >> >>,
      << <<"my_input", F1Blob>> >>,
      << <<"my_input", <<"alias", "latest">> >> >>,
      << <<"my_input", <<"@", "f1">> >>, <<"aux", <<"@", "d1">> >> >>,
      << <<"my_input", <<"@", "f1">> >>, <<"aux", D1Tree>> >>,
      << <<"my_input", <<"@", "f1">> >>, <<"aux", <<"alias", "latest">> >> >> }

NextSame ==
    \/ \E inv \in {Base}, input_specs \in InputMapsSame : RunStart(inv, input_specs)
    \/ \E symlink_ok, hardlink_ok \in BOOLEAN : RunResolve(symlink_ok, hardlink_ok)
    \/ RunHash
    \/ RunWorkdir
    \/ \E fault \in BOOLEAN : RunLoad(fault)
    \/ \E fault \in BOOLEAN : RunCore(fault)
    \/ \E fault \in BOOLEAN : RunSave(fault)
    \/ RunCommit
    \/ \E now \in 0..MaxClock : RunManifest(now)
    \/ RunAlias
    \/ RunCleanup
    \/ \E name \in AliasNames, target \in {F1Blob, D1Tree} : AliasSet(name, target)

SpecSame == Init /\ [][NextSame]_vars

\* two manifests list the same objects under the same names
SameInputObjects(m1, m2) ==
    /\ Len(m1.inputs) = Len(m2.inputs)
    /\ \A k \in 1..Len(m1.inputs) :
          /\ m1.inputs[k][1] = m2.inputs[k][1]
          /\ EntryTypedId(m1.inputs[k][2]) = EntryTypedId(m2.inputs[k][2])

(* C30: two runs of the same code with the same parameters and environment *)
(* whose inputs are the same files and directories under the same names,   *)
(* however each was referred to (path, typed id or alias), record the same *)
(* input ids and have the same run id.                                     *)
C30_SameObjectSameRunId ==
    \A m1, m2 \in Manifests :
        ( /\ SameInputObjects(m1, m2)
          /\ m1.step.code_hash = m2.step.code_hash
          /\ m1.parameters.hash = m2.parameters.hash
          /\ m1.environment.hash = m2.environment.hash )
        => /\ \A k \in 1..Len(m1.inputs) : m1.inputs[k][2].id = m2.inputs[k][2].id
           /\ m1.run_id = m2.run_id

-----------------------------------------------------------------------------
(* cli.py `manifest view`: the outputs of a manifest are read back *)

\* lines 113-124 for one entry o of m["outputs"]: the file of the store that
\* the command reads for it, and whether the file is there
view_output(st, o) ==
    IF o.type = "file"
    THEN [path    |-> blob_path(<<"sha256">> \o o.id),
          present |-> blob_path(<<"sha256">> \o o.id) \in DOMAIN st]
    ELSE [path    |-> read_tree_path(<<"tree", "sha256">> \o o.id),
          present |-> read_tree(st, <<"tree", "sha256">> \o o.id).ok]

(* C31: for every output of every manifest that a run wrote, the file that *)
(* `manifest view` reads for it is in the store: the blob for a file       *)
(* output, the tree file for a dir output.                                 *)
C31_OutputIdsReadBack ==
    \A m \in Manifests :
        \A k \in 1..Len(m.outputs) : view_output(store, m.outputs[k][2]).present

-----------------------------------------------------------------------------
(* A run after an aborted run of the same run id *)

\* what the save of scratch.py leaves under ctx.output_dir when it raises
\* after it wrote part.tmp
StepSaveRaised(ast, results) ==
    ("part.tmp" :> [is_dir |-> FALSE, bytes |-> results, files |-> <<>>])

\* line 179 for a step whose save may raise half way; the files it writes are
\* added to what out/ holds.  call keeps the id of the last run that left files.
RunSaveInto(fault) ==
    /\ run.pc = "save"
    /\ LET ast == StepModules[run.step_path].ast
           written == IF fault THEN StepSaveRaised(ast, run.results)
                      ELSE StepSave(ast, run.results)
       IN  rundirs' = [rundirs EXCEPT ![RunHex].out = written @@ @]
    /\ run' = IF fault
              THEN Abort([run EXCEPT !.events = Append(@, Event("save", ""))], "save raised")
              ELSE [run EXCEPT !.pc = NextPc("save"), !.events = Append(@, Event("save", ""))]
    /\ call' = IF fault THEN [NoApiCall EXCEPT !.op = "left", !.args = <<run.run_id>>]
               ELSE call
    /\ UNCHANGED <<store, work, clock, ops, procs, crashed, partial>>

InvocationsLeft ==
    { [Base EXCEPT !.step_path = "scratch.py"],
      [Base EXCEPT !.step_path = "scratch.py", !.params_eff = ("suffix" :> "?")] }

InputMapsLeft == { << <<"my_input", <<"@", "f1">> >> >> }

NextLeft ==
    \/ \E inv \in InvocationsLeft, input_specs \in InputMapsLeft : RunStart(inv, input_specs)
    \/ \E symlink_ok, hardlink_ok \in BOOLEAN : RunResolve(symlink_ok, hardlink_ok)
    \/ RunHash
    \/ RunWorkdir
    \/ \E fault \in BOOLEAN : RunLoad(fault)
    \/ \E fault \in BOOLEAN : RunCore(fault)
    \/ \E fault \in BOOLEAN : RunSaveInto(fault)
    \/ RunCommit
    \/ \E now \in 0..MaxClock : RunManifest(now)
    \/ RunAlias
    \/ RunCleanup

SpecLeft == Init /\ [][NextLeft]_vars

(* C32: a manifest lists no output but those that the save phase of its    *)
(* step writes when it returns, and neither does a run that has scanned    *)
(* its output directory: what an aborted run of the same run id left under *)
(* out/ is gone before the phases run.                                     *)
C32_NoLeftoverOutputs ==
    /\ \A m \in Manifests :
          {m.outputs[k][1] : k \in 1..Len(m.outputs)}
              \subseteq DOMAIN StepSave(StepModules[m.step.path].ast, <<>>)
    /\ run.pc \in {"manifest", "alias", "cleanup"} =>
          {run.outputs_map[k][1] : k \in 1..Len(run.outputs_map)}
              \subseteq DOMAIN StepSave(StepModules[run.step_path].ast, <<>>)

\* a run has written its manifest after a run of the same run id was aborted
\* in its save phase and left part.tmp under out/
C32_Witness ==
    /\ run.pc = "cleanup"
    /\ call.op = "left"
    /\ call.args[1] = run.run_id
    /\ manifest_path(run.run_id) \in DOMAIN store
    /\ manifest_path(run.run_id) \notin DOMAIN run.store0
    /\ "part.tmp" \notin DOMAIN rundirs[RunHex].out

-----------------------------------------------------------------------------
(* alias_set on a store whose aliases form groups: names of several        *)
(* components, directories and files                                       *)

\* the files under the directory at path; the temporary of a file is beside it
Under(st, path) ==
    {q \in DOMAIN st : /\ Len(q) > Len(path)
                       /\ SubSeq(q, 1, Len(path)) = path
                       /\ q[Len(path) + 1] \notin TmpSuffixes}

\* store.alias_set(store, name, target) when time.time_ns() reads time_ns:
\* mkdir of the parents (lines 114 and 32), the temporary written (33-37),
\* os.replace (38).  mkdir raises when the parent or a directory above it is a
\* file, os.replace when the path is a directory; nothing removes the
\* temporary then.
alias_set_fs(st, name, target, time_ns) ==
    LET p == alias_path(name)
        tmp == atomic_tmp(p, time_ns)
        written == [q \in DOMAIN st \cup {tmp} |-> IF q = tmp THEN target \o <<"\n">> ELSE st[q]]
    IN  IF \E k \in 1..(Len(p) - 1) : SubSeq(p, 1, k) \in DOMAIN st
        THEN [ok |-> FALSE,
              err |-> IF SubSeq(p, 1, Len(p) - 1) \in DOMAIN st THEN "FileExistsError"
                      ELSE "NotADirectoryError",
              store |-> st]
        ELSE IF Under(st, p) # {}
        THEN [ok |-> FALSE, err |-> "IsADirectoryError", store |-> written]
        ELSE [ok |-> TRUE, err |-> "", store |-> Replace(written, tmp, p)]

\* alias names as `repro alias set NAME TARGET` takes them, by component: a
\* group, a name in the group, a name in a group of the group, and a name
\* that leaves aliases/
AliasFsNames ==
    {<<"runs">>, <<"runs", "latest">>, <<"runs", "latest", "v1">>,
     <<"..">> \o blob_path(sha256_file(F1))}

AliasFsTargets == {<<"blob">> \o sha256_file(F1), <<"run", "sha256", "dead">>}

ApiAliasSetFs(name, target, time_ns) ==
    /\ time_ns >= clock
    /\ clock' = time_ns
    /\ LET r == alias_set_fs(store, name, target, time_ns)
       IN  /\ store' = r.store
           /\ call' = ApiCall("alias_set", <<name, target>>, [ok |-> r.ok, err |-> r.err])
    /\ UNCHANGED <<work, rundirs, run, ops, procs, crashed, partial>>

NextAliasFs ==
    \/ \E name \in {"f1"} : ApiCommitBlob(name)
    \/ \E name \in {"d1"} : ApiCommitTree(name)
    \/ \E name \in AliasFsNames, target \in AliasFsTargets, time_ns \in 0..MaxClock :
           ApiAliasSetFs(name, target, time_ns)

SpecAliasFs == InitStore /\ [][NextAliasFs]_vars

(* C33: after alias_set(name, target), returned or raised, every file of   *)
(* the store other than aliases/<name> is there as it was before the call, *)
(* and no file has appeared: the other aliases, those of a group called    *)
(* name and an alias that names a group of name included, and every blob,  *)
(* tree and manifest.                                                      *)
C33_AliasSetChangesOneAlias ==
    call.op = "alias_set" =>
        \A p \in DOMAIN store \cup DOMAIN call.before :
            p # <<"aliases">> \o call.args[1] =>
                /\ p \in DOMAIN store
                /\ p \in DOMAIN call.before
                /\ store[p] = call.before[p]

=============================================================================
